---- MODULE Spec2Model ----
(***************************************************************************)
(* Graph construction and build pipeline of steelix/spox:                  *)
(*   - nodes and arrows (Values) created by the internal operators         *)
(*     (Argument, Initializer, Constant, Introduce, Function) and by       *)
(*     standard operators,                                                 *)
(*   - Graph objects, their copy-on-write with_* transformations and the   *)
(*     cached build result,                                                *)
(*   - serialisation to a graph (to_onnx) and a model (to_onnx_model).     *)
(***************************************************************************)
EXTENDS Integers, Sequences, FiniteSets, TLC

VARIABLES
    nodes,   \* every Node constructed so far, in construction order
    arrows,  \* every Arrow (Value) constructed so far; arrows[v].node produced it
    graphs,  \* every Graph object constructed so far
    cells,   \* the _build.Cached cells; graphs[g].cell names the cell of g
    held,    \* the arrows the user program holds a reference to
    runs,    \* history: per Graph, the Builder(g).build_main() calls made and those that returned
    last,    \* the last user-level call: what was called, on what, the error raised, the value returned
    decorated \* the closure of the function the program decorated with to_function

vars == <<nodes, arrows, graphs, cells, held, runs, last, decorated>>

-----------------------------------------------------------------------------
(* Bounds of the model *)

MaxNodes == 3     \* nodes made by the construction calls of SpecNodes
MaxGraphs == 2    \* Graph objects the user program makes
MaxArguments == 2 \* arrows handed to with_arguments(...)
MaxRuns == 2      \* Builder runs of one Graph
MaxCalls == 3     \* calls of the decorated function

-----------------------------------------------------------------------------
(* Small helpers *)

NONE == "<None>"

Range(s) == {s[i] : i \in 1..Len(s)}

Min(S) == CHOOSE x \in S : \A y \in S : x <= y

Max(S) == CHOOSE x \in S : \A y \in S : x >= y

RECURSIVE Concat(_)
Concat(ss) == IF ss = <<>> THEN <<>> ELSE Head(ss) \o Concat(Tail(ss))

Reverse(s) == [i \in 1..Len(s) |-> s[Len(s) + 1 - i]]

IsInjective(s) == \A i, j \in 1..Len(s) : s[i] = s[j] => i = j

-----------------------------------------------------------------------------
(* Types, arrays *)

\* Tensor(dtype, shape); a dimension is a positive integer, a symbolic name
\* (negative number: -1 is "N") or unknown (0).
Tensor(dtype, shape) == [dtype |-> dtype, shape |-> shape]

\* the absent Type (Python None)
NoType == [dtype |-> NONE, shape |-> <<>>]

\* arrays are named by positive integers; array k is a float32 vector of
\* length k
like_array(arr) == Tensor("float32", <<arr>>)

TypeMenu == {Tensor("float32", <<-1>>), Tensor("int64", <<2>>)}
ShapeMenu == {<<0, 2>>}
ArrayMenu == {2}

\* what a caller may hand to arguments_dict for one keyword: None, a Type,
\* a numpy array, or some other object
InfoMenu ==
    {[kind |-> "none", type |-> NoType, arr |-> 0]}
    \cup {[kind |-> "type", type |-> Tensor("float32", <<-1>>), arr |-> 0]}
    \cup {[kind |-> "array", type |-> NoType, arr |-> a] : a \in ArrayMenu}
    \cup {[kind |-> "other", type |-> NoType, arr |-> 0]}

-----------------------------------------------------------------------------
(* Nodes and arrows *)

\* One record shape for every node class.  op/domain/version: op_type.
\* ins/outs: arrows.  name/type/data: the Argument, Initializer and Constant
\* attributes (data = 0: no default).  cver: _Constant.version (0 = None).
\* sub: graph of a subgraph attribute (0 = none).  fg: Function.func_graph
\* (0 = none).  conv: whether a version conversion rule exists for the op.
MkNode(op, domain, version, ins, outs) ==
    [op |-> op, domain |-> domain, version |-> version, ins |-> ins, outs |-> outs,
     name |-> NONE, type |-> NoType, data |-> 0, cver |-> 0, sub |-> 0, fg |-> 0,
     conv |-> FALSE]

MkArrow(node, type, value, name) ==
    [node |-> node, type |-> type, value |-> value, name |-> name]

\* The construction state U: every node, arrow, Graph object and cache cell
\* made so far.  Constructors are functions from U to the next U.
Universe == [nodes |-> nodes, arrows |-> arrows, graphs |-> graphs, cells |-> cells]

EmptyUniverse == [nodes |-> <<>>, arrows |-> <<>>, graphs |-> <<>>, cells |-> <<>>]

NextNode(U) == Len(U.nodes) + 1
NextArrow(U) == Len(U.arrows) + 1

\* what a constructor call gives back: the next U, the exception raised
\* ("none" when it returned) and the arrows returned
Returned(U, ret) == [u |-> U, err |-> "none", ret |-> ret]
Raised(U, err) == [u |-> U, err |-> err, ret |-> <<>>]

\* Node.__init__: the node and its fresh output arrows enter the universe
AddNode(U, node, outs) ==
    [U EXCEPT !.nodes = Append(@, node), !.arrows = @ \o outs]

-----------------------------------------------------------------------------
(* graph.py / _internal_op.py: argument, initializer and constant sources *)

\* Argument(Attributes(name, type, default), NoArrows()): post_init renames
\* the output to the declared name; infer_output_types gives the output the
\* value of the type attribute, whatever it is.
Argument(U, name, type, default) ==
    AddNode(U,
        [MkNode("Argument", "spox.internal", 0, <<>>, <<NextArrow(U)>>)
            EXCEPT !.name = name, !.type = type, !.data = default],
        <<MkArrow(NextNode(U), type, 0, name)>>)

\* arguments_dict(**{name: info}), one keyword
arguments_dict(U, name, info) ==
    IF info.kind \in {"none", "type"}
    THEN Returned(Argument(U, name, info.type, 0), <<NextArrow(U)>>)
    ELSE IF info.kind = "array"
    THEN Returned(Argument(U, name, like_array(info.arr), info.arr), <<NextArrow(U)>>)
    ELSE Raised(U, "TypeError")

\* initializer(arr)
initializer(U, arr) ==
    Returned(
        AddNode(U,
            [MkNode("Initializer", "spox.internal", 0, <<>>, <<NextArrow(U)>>)
                EXCEPT !.type = like_array(arr), !.data = arr],
            <<MkArrow(NextNode(U), like_array(arr), 0, NONE)>>),
        <<NextArrow(U)>>)

\* constant(value, version): the output type is the literal's dtype and shape,
\* the propagated value is the literal
constant(U, value, version) ==
    Returned(
        AddNode(U,
            [MkNode("Constant", "spox.internal", 0, <<>>, <<NextArrow(U)>>)
                EXCEPT !.data = value, !.cver = version],
            <<MkArrow(NextNode(U), like_array(value), value, NONE)>>),
        <<NextArrow(U)>>)

-----------------------------------------------------------------------------
(* _internal_op.py: Introduce and the unsafe overrides *)

\* intros(*args): one _Introduce node, out_variadic = len(args);
\* output i gets the type of input i (an absent type stays absent)
intros(U, args) ==
    LET outs == [i \in 1..Len(args) |-> NextArrow(U) + i - 1]
    IN  Returned(
            AddNode(U,
                MkNode("Introduce", "spox.internal", 0, args, outs),
                [i \in 1..Len(args) |->
                    MkArrow(NextNode(U), U.arrows[args[i]].type, 0, NONE)]),
            outs)

\* intro(*args) == intros(*args)[-1]
intro(U, args) ==
    LET r == intros(U, args)
    IN  [r EXCEPT !.ret = <<r.ret[Len(r.ret)]>>]

\* unsafe_cast(x, typ): y = intro(x); y.type = typ; y._value = x._value
unsafe_cast_DropsValueM(U, x, typ) ==
    LET r == intro(U, <<x>>)
        y == r.ret[1]
    IN  [r EXCEPT !.u.arrows[y].type = typ]

unsafe_cast(U, x, typ) ==
    LET r == intro(U, <<x>>)
        y == r.ret[1]
    IN  [r EXCEPT !.u.arrows[y].type = typ,
                  !.u.arrows[y].value = U.arrows[x].value]

\* unsafe_reshape(x, shape): x.unwrap_tensor() raises when x has no tensor type
unsafe_reshape(U, x, shape) ==
    IF U.arrows[x].type = NoType
    THEN Raised(U, "TypeError")
    ELSE unsafe_cast(U, x, Tensor(U.arrows[x].type.dtype, shape))
-----------------------------------------------------------------------------
(* graph.py: Graph objects *)

NoArguments == [some |-> FALSE, args |-> <<>>]
SomeArguments(args) == [some |-> TRUE, args |-> args]

NoOpsetReq == [some |-> FALSE, req |-> {}]

\* a user callable building arrows from arrows (a subgraph body, a Function
\* constructor): kind "none" is Python None
NoFun == [kind |-> "none", o |-> 0, x |-> 0]

\* a __post_init__ that validates the results only
post_init_ok_ResultsOnlyM(U, fields) ==
    \A i \in 1..Len(fields.results) : fields.results[i] \in 1..Len(U.arrows)

\* Graph.__post_init__: results, and explicit arguments when given, must all
\* be Arrows
post_init_ok(U, fields) ==
    /\ \A i \in 1..Len(fields.results) : fields.results[i] \in 1..Len(U.arrows)
    /\ fields.arguments.some =>
         \A i \in 1..Len(fields.arguments.args) :
            fields.arguments.args[i] \in 1..Len(U.arrows)

\* Graph(...): the dataclass constructor followed by __post_init__; a Graph
\* that fails validation never exists
Graph(U, fields) ==
    IF post_init_ok(U, fields)
    THEN [u |-> [U EXCEPT !.graphs = Append(@, fields)], err |-> "none",
          ret |-> <<Len(U.graphs) + 1>>]
    ELSE Raised(U, "TypeError")

\* results(**kwargs) == Graph(kwargs): every other field takes its default,
\* _build_result a fresh empty _build.Cached() from the default_factory
results(U, rs) ==
    LET r == Graph(U, [results |-> rs, name |-> NONE, doc |-> NONE,
                       arguments |-> NoArguments, extra |-> NoOpsetReq,
                       constructor |-> NoFun, cell |-> Len(U.cells) + 1])
    IN  IF r.err = "none"
        THEN [r EXCEPT !.u.cells = Append(@, <<>>)]
        ELSE r

\* enum_results(*arrows) == results(**{out{i}: arrow})
enum_results(U, rs) == results(U, rs)

\* dataclasses.replace(self, **changes): a new Graph from every init field
\* of self, _build_result included, with the changed fields overwritten;
\* __post_init__ runs again.  `fields` is self's record with the change made.
replace(U, fields) == Graph(U, fields)

with_name(U, g, name) == replace(U, [U.graphs[g] EXCEPT !.name = name])

with_doc(U, g, doc_string) == replace(U, [U.graphs[g] EXCEPT !.doc = doc_string])

with_arguments(U, g, args) ==
    replace(U, [U.graphs[g] EXCEPT !.arguments = SomeArguments(args)])


\* a with_opset that forgets the requirements added before
with_opset_ReplacesM(U, g, req) ==
    replace(U, [U.graphs[g] EXCEPT !.extra = [some |-> TRUE, req |-> req]])

\* with_opset(*args): extra_opset_req = set(args) | self._extra_opset_req
with_opset(U, g, req) ==
    replace(U, [U.graphs[g] EXCEPT
        !.extra = [some |-> TRUE,
                   req |-> IF @.some THEN req \cup @.req ELSE req]])

with_constructor(U, g, fun) == replace(U, [U.graphs[g] EXCEPT !.constructor = fun])
-----------------------------------------------------------------------------
(* The operator library: standard operators, and operators with a subgraph *)

\* a standard operator of the default domain: identifier, opset version it
\* was generated for, and whether the version converter has a rule for it
Op(op, version, conv) == [op |-> op, version |-> version, conv |-> conv]

\* the operators computing elementwise over two broadcast inputs
Elementwise == {"Add"}

\* the shape s as a shape of n dimensions: missing leading dimensions are 1
PadLeft(s, n) == [i \in 1..n |-> IF i <= n - Len(s) THEN 1 ELSE s[i - (n - Len(s))]]

\* two dimensions broadcast unless both are known, differ, and neither is 1
DimsBroadcast(a, b) == ~(a > 0 /\ b > 0 /\ a # b /\ a # 1 /\ b # 1)

\* the broadcast of two dimensions: equal ones stay, 1 gives way, a known
\* size wins over a symbolic or unknown one, two different symbols give an
\* unknown dimension
BroadcastDim(a, b) ==
    IF a = b THEN a
    ELSE IF a = 1 THEN b
    ELSE IF b = 1 THEN a
    ELSE IF a > 0 THEN a
    ELSE IF b > 0 THEN b
    ELSE 0

Broadcastable(s, t) ==
    \A i \in 1..Max({Len(s), Len(t)}) :
        DimsBroadcast(PadLeft(s, Max({Len(s), Len(t)}))[i],
                      PadLeft(t, Max({Len(s), Len(t)}))[i])

broadcast(s, t) ==
    [i \in 1..Max({Len(s), Len(t)}) |->
        BroadcastDim(PadLeft(s, Max({Len(s), Len(t)}))[i],
                     PadLeft(t, Max({Len(s), Len(t)}))[i])]

\* an inference that gives the output the type of the first input
infer_output_types_FirstInputM(o, types) == [err |-> "none", type |-> types[1]]

\* Node.infer_output_types of a standard operator over inputs of the given
\* types.  Elementwise: unknown when an input type is unknown, an Inference
\* error when the element types differ or the shapes do not broadcast, else
\* the common element type with the broadcast shape.  Any other operator of
\* the programs here: the type of its first input.
infer_output_types(o, types) ==
    IF o.op \notin Elementwise THEN [err |-> "none", type |-> types[1]]
    ELSE IF types[1] = NoType \/ types[2] = NoType THEN [err |-> "none", type |-> NoType]
    ELSE IF types[1].dtype # types[2].dtype \/ ~Broadcastable(types[1].shape, types[2].shape)
    THEN [err |-> "InferenceError", type |-> NoType]
    ELSE [err |-> "none",
          type |-> Tensor(types[1].dtype, broadcast(types[1].shape, types[2].shape))]

\* the node of operator o over ins, its one output of type inferred.type
StandardOp_node(U, o, ins, inferred) ==
    IF inferred.err # "none" THEN Raised(U, inferred.err)
    ELSE Returned(
            AddNode(U,
                [MkNode(o.op, "", o.version, ins, <<NextArrow(U)>>) EXCEPT !.conv = o.conv],
                <<MkArrow(NextNode(U), inferred.type, 0, NONE)>>),
            <<NextArrow(U)>>)

\* op(*ins): one node with one output of the inferred type; raises when the
\* inference does
StandardOp(U, o, ins) ==
    StandardOp_node(U, o, ins,
        infer_output_types(o, [i \in 1..Len(ins) |-> U.arrows[ins[i]].type]))

\* The callables handed to subgraph() and used as Function constructors:
\*   "id"   lambda *ins: ins
\*   "op"   lambda *ins: (o(ins[0], x),)   with x an arrow of the enclosing
\*          scope, or o(ins[0], ins[0]) when x = 0
\*   "ret"  lambda *ins: (x,)               the enclosing arrow itself
\*   "fn"   lambda *ins: (cls(ins[0]),)     with cls the Function class named
\*          x whose constructor is the callable o
Fun(kind, o, x) == [kind |-> kind, o |-> o, x |-> x]

RECURSIVE Function(_, _, _, _)
ApplyFun(U, fun, ins) ==
    IF fun.kind = "id" THEN Returned(U, ins)
    ELSE IF fun.kind = "op"
    THEN StandardOp(U, fun.o, <<ins[1], IF fun.x = 0 THEN ins[1] ELSE fun.x>>)
    ELSE IF fun.kind = "fn" THEN Function(U, fun.x, fun.o, <<ins[1]>>)
    ELSE IF fun.kind = "rank"
    THEN Returned(U, [i \in 1..Len(U.arrows[ins[1]].type.shape) |-> ins[1]])
    ELSE Returned(U, <<fun.x>>)

\* f"{prefix}{i}"
EnumName(prefix, i) ==
    IF prefix = "in" THEN <<"in0", "in1", "in2">>[i + 1]
    ELSE <<"out0", "out1", "out2">>[i + 1]

\* enum_arguments(*infos, prefix): arguments(**{f"{prefix}{i}": info}), the
\* keywords taken in order from index i on
RECURSIVE enum_arguments(_, _, _, _)
enum_arguments(U, infos, prefix, i) ==
    IF infos = <<>> THEN Returned(U, <<>>)
    ELSE LET r == arguments_dict(U, EnumName(prefix, i), Head(infos))
         IN  IF r.err # "none" THEN r
             ELSE LET rest == enum_arguments(r.u, Tail(infos), prefix, i + 1)
                  IN  [rest EXCEPT !.ret = r.ret \o @]

TypeInfo(t) ==
    IF t = NoType THEN [kind |-> "none", type |-> NoType, arr |-> 0]
    ELSE [kind |-> "type", type |-> t, arr |-> 0]

\* Arrow._rename(None) on each of vs
RenameNone(U, vs) ==
    [U EXCEPT !.arrows = [v \in 1..Len(@) |->
        IF v \in Range(vs) THEN [@[v] EXCEPT !.name = NONE] ELSE @[v]]]

\* A chain results(...).with_x(...).with_y(...) leaves one Graph object to its
\* caller; the temporaries before it are unreferenced and dropped.  r is the
\* outcome of the last call of the chain, U0 the universe before the chain.
KeepLast(U0, r) ==
    [r EXCEPT !.u.graphs = Append(U0.graphs, r.u.graphs[r.ret[1]]),
              !.ret = <<Len(U0.graphs) + 1>>]

\* g.with_arguments(*args), g._with_constructor(fun) on the Graph a call
\* just returned
then_with_arguments(r, args) == with_arguments(r.u, r.ret[1], args)

then_with_constructor(r, fun) == with_constructor(r.u, r.ret[1], fun)

then_with_opset(r, req) == with_opset(r.u, r.ret[1], req)

\* subgraph(types, fun):
\*   ins = enum_arguments(*types); each renamed to None; outs = fun(*ins)
\*   enum_results(*outs).with_arguments(*ins)._with_constructor(fun)
\* a: the outcome of enum_arguments, f: the outcome of fun
subgraph_graph(a, f, fun) ==
    KeepLast(f.u,
        then_with_constructor(
            then_with_arguments(enum_results(f.u, f.ret), a.ret), fun))

subgraph_outs(a, fun) ==
    subgraph_graph(a, ApplyFun(RenameNone(a.u, a.ret), fun, a.ret), fun)

subgraph(U, types, fun) ==
    subgraph_outs(
        enum_arguments(U, [i \in 1..Len(types) |-> TypeInfo(types[i])], "in", 0), fun)

\* the Loop node over the body b: one output per body result, typed like it
Loop(b, initial) ==
    LET body == b.u.graphs[b.ret[1]]
        outs == [i \in 1..Len(body.results) |-> NextArrow(b.u) + i - 1]
    IN  Returned(
            AddNode(b.u,
                [MkNode("Loop", "", 16, initial, outs) EXCEPT !.sub = b.ret[1]],
                [i \in 1..Len(outs) |->
                    MkArrow(NextNode(b.u), b.u.arrows[body.results[i]].type, 0, NONE)]),
            outs)

\* xloop(initial, fun): a Loop node over the body subgraph(types of initial, fun)
xloop(U, initial, fun) ==
    Loop(subgraph(U, [i \in 1..Len(initial) |-> U.arrows[initial[i]].type], fun),
         initial)

-----------------------------------------------------------------------------
(* function.py: Function nodes *)

\* Function.infer_output_types:
\*   func_args    = arguments_dict(**{in{i}: arrow.type})
\*   func_outputs = constructor(func_attrs, func_inputs)
\*   func_graph   = results(**func_outputs).with_arguments(*func_args)
\* a: the outcome of arguments_dict, f: the outcome of the constructor
Function_graph(a, f) ==
    KeepLast(f.u, then_with_arguments(results(f.u, f.ret), a.ret))

Function_outputs(a, fun) == Function_graph(a, ApplyFun(a.u, fun, a.ret))

\* the node of the class named fname over func_graph g; its outputs take the
\* types of func_outputs
Function_node(g, fname, ins) ==
    LET func_graph == g.u.graphs[g.ret[1]]
        outs == [i \in 1..Len(func_graph.results) |-> NextArrow(g.u) + i - 1]
    IN  Returned(
            AddNode(g.u,
                [MkNode(fname, "steelix.function", 0, ins, outs) EXCEPT !.fg = g.ret[1]],
                [i \in 1..Len(outs) |->
                    MkArrow(NextNode(g.u), g.u.arrows[func_graph.results[i]].type, 0, NONE)]),
            outs)

\* cls(cls.Attributes(), cls.Inputs(*ins)) for the class named fname made by
\* _make_function_cls over the constructor fun
Function(U, fname, fun, ins) ==
    Function_node(
        Function_outputs(
            enum_arguments(U, [i \in 1..Len(ins) |-> TypeInfo(U.arrows[ins[i]].type)],
                           "in", 0),
            fun),
        fname, ins)


\* the _Func class _make_function_cls returns: its op_type, the arity of its
\* Inputs and Outputs, and id, the identity of the class object
make_function_cls(num_inputs, num_outputs, domain, version, name, id) ==
    [name |-> name, domain |-> domain, version |-> version,
     num_inputs |-> num_inputs, num_outputs |-> num_outputs, id |-> id]

\* the closure inner(fun) of to_function(name) leaves behind: no output count
\* and no class yet; calls counts the calls of alt_fun made so far
to_function(name, fun) ==
    [name |-> name, domain |-> "steelix.function", version |-> 0, fun |-> fun,
     num_inputs |-> 1, num_outputs |-> NONE, cls |-> <<>>, calls |-> 0]

\* no function was decorated
Undecorated == [to_function(NONE, NoFun) EXCEPT !.num_inputs = 0]

\* get_num_outputs(*args): the count kept, or the length of what fun(*args)
\* gives, which it keeps
get_num_outputs_with(d, U, r) ==
    IF d.num_outputs # NONE THEN [u |-> U, err |-> "none", d |-> d]
    ELSE IF r.err # "none" THEN [u |-> r.u, err |-> r.err, d |-> d]
    ELSE [u |-> r.u, err |-> "none", d |-> [d EXCEPT !.num_outputs = Len(r.ret)]]

get_num_outputs(U, d, args) == get_num_outputs_with(d, U, ApplyFun(U, d.fun, args))

init_with(d, n) ==
    IF n.err # "none" THEN n
    ELSE [n EXCEPT !.d.cls = <<make_function_cls(d.num_inputs, n.d.num_outputs, d.domain,
                                                 d.version, d.name, d.calls + 1)>>]

\* init(*args) making a class at every call, from a fresh count of outputs
init_EveryCallM(U, d, args) ==
    init_with(d, get_num_outputs(U, [d EXCEPT !.num_outputs = NONE], args))

\* init(*args): the class kept, or the one _make_function_cls makes, which it
\* keeps
init(U, d, args) ==
    IF d.cls # <<>> THEN [u |-> U, err |-> "none", d |-> d]
    ELSE init_with(d, get_num_outputs(U, d, args))

\* cls(cls.Attributes(), cls.Inputs(*args)).outputs.unpack(): Inputs takes
\* num_inputs arrows and Outputs takes num_outputs of them
alt_fun_node(i, cls, args, f) ==
    IF Len(args) # cls.num_inputs THEN [u |-> i.u, err |-> "TypeError", ret |-> <<>>, d |-> i.d]
    ELSE IF f.err # "none" THEN [u |-> i.u, err |-> f.err, ret |-> <<>>, d |-> i.d]
    ELSE IF Len(f.ret) # cls.num_outputs
    THEN [u |-> i.u, err |-> "TypeError", ret |-> <<>>, d |-> i.d]
    ELSE [u |-> f.u, err |-> "none", ret |-> f.ret, d |-> i.d]

alt_fun_with(i, args) ==
    IF i.err # "none" THEN [u |-> i.u, err |-> i.err, ret |-> <<>>, d |-> i.d]
    ELSE alt_fun_node(i, i.d.cls[1], args, Function(i.u, i.d.name, i.d.fun, args))

alt_fun(U, d, args) == alt_fun_with(init(U, d, args), args)

IsFunction(n) == n.fg # 0
-----------------------------------------------------------------------------
(* _build.Builder: traversal, scopes, build order *)

InputNodes(n) == {arrows[v].node : v \in Range(nodes[n].ins)}

ResultNodes(g) == {arrows[v].node : v \in Range(graphs[g].results)}

\* the nodes a node's subgraph attribute asks for
SubNodes(n) == IF nodes[n].sub = 0 THEN {} ELSE ResultNodes(nodes[n].sub)

Deps(n) == InputNodes(n) \cup SubNodes(n)

\* every node reachable from S through inputs and into subgraphs
RECURSIVE Closure(_)
Closure(S) ==
    LET T == S \cup UNION {Deps(n) : n \in S}
    IN  IF T = S THEN S ELSE Closure(T)

Reach(g) == Closure(ResultNodes(g))

\* the nodes of R carrying a subgraph that declares n's output as its argument
SubArgCarriers(n, R) ==
    {c \in R : /\ nodes[c].sub # 0
               /\ \E v \in Range(graphs[nodes[c].sub].arguments.args) : arrows[v].node = n}

\* A scope is the path of subgraph-carrying nodes leading to it: <<>> is the
\* main scope, Append(p, c) the scope of c's subgraph when c lies in scope p.
IsPrefix(p, q) == Len(p) <= Len(q) /\ SubSeq(q, 1, Len(p)) = p

\* the innermost scope enclosing every scope of P
CommonScope(P) ==
    LET q0   == CHOOSE q \in P : TRUE
        good == {k \in 0..Len(q0) : \A q \in P : IsPrefix(SubSeq(q0, 1, k), q)}
    IN  SubSeq(q0, 1, Max(good))

\* the scopes in which node n of R is used, given the scopes of its users
UseScopes(n, g, R, place) ==
    {place[m] : m \in {m \in R : n \in InputNodes(m)}}
    \cup {Append(place[c], c) : c \in {c \in R : n \in SubNodes(c)}}
    \cup (IF n \in ResultNodes(g) THEN {<<>>} ELSE {})

\* The scope each node of R is built in, users before the nodes they use:
\* an argument of a subgraph in that subgraph's scope, any other Argument or
\* Initializer in the main scope, every other node in the innermost scope
\* enclosing all of its uses.
RECURSIVE PlaceFrom(_, _, _, _)
PlaceFrom(n, g, R, place) ==
    IF n = 0 THEN place
    ELSE IF n \notin R THEN PlaceFrom(n - 1, g, R, place)
    ELSE LET owners == SubArgCarriers(n, R)
             p == IF owners # {}
                  THEN Append(place[Min(owners)], Min(owners))
                  ELSE IF nodes[n].op \in {"Argument", "Initializer"} THEN <<>>
                  ELSE CommonScope(UseScopes(n, g, R, place))
         IN  PlaceFrom(n - 1, g, R,
                [m \in DOMAIN place \cup {n} |-> IF m = n THEN p ELSE place[m]])

Place(g, R) == PlaceFrom(Len(nodes), g, R, [m \in {} |-> <<>>])

\* a value is visible where it is used: the scope it is built in encloses
\* every scope that uses it
WellScoped(g, R, place) ==
    \A n \in R : \A u \in UseScopes(n, g, R, place) : IsPrefix(place[n], u)

\* topological order of S, the earliest constructed ready node first;
\* anc[n]: the nodes n depends on
RECURSIVE TopoOrder(_, _, _)
TopoOrder(S, done, anc) ==
    IF S = {} THEN done
    ELSE LET ready == {n \in S : anc[n] \cap S = {}}
         IN  TopoOrder(S \ {Min(ready)}, Append(done, Min(ready)), anc)

\* What one build works with: the reachable nodes R, the scope of each, and
\* the build order of every scope
Ordered(R, place, anc) ==
    [R     |-> R,
     place |-> place,
     order |-> [p \in {place[n] : n \in R} \cup {<<>>} |->
                   TopoOrder({n \in R : place[n] = p}, <<>>, anc)]]

Placed(g, R) == Ordered(R, Place(g, R), [n \in R |-> Closure({n}) \ {n}])

Context(g) == Placed(g, Reach(g))

\* the nodes built in scope p, in build order
ScopeOrder(p, ctx) == IF p \in DOMAIN ctx.order THEN ctx.order[p] ELSE <<>>

IndexOf(s, x) == CHOOSE i \in 1..Len(s) : s[i] = x

\* Scope: the name of arrow v in a build.  A declared name is kept; any other
\* arrow is named after its node.  The position of the node in the order of
\* its scope and the nesting depth keep the names apart.
NameOf(v, ctx) ==
    LET n == arrows[v].node
    IN  [d    |-> Len(ctx.place[n]),
         base |-> IF arrows[v].name # NONE THEN arrows[v].name ELSE nodes[n].op,
         i    |-> IndexOf(ScopeOrder(ctx.place[n], ctx), n),
         k    |-> IndexOf(nodes[n].outs, v)]

Names(vs, ctx) == [i \in 1..Len(vs) |-> NameOf(vs[i], ctx)]

-----------------------------------------------------------------------------
(* Lowering: Node.to_onnx *)

\* onnx.helper.make_node: one instruction.  data: the tensor of a Constant;
\* body, bargs, bres: the subgraph attribute; since: the opset version the
\* instruction is written for (0: any)
Proto(op, domain, ins, outs, since) ==
    [op |-> op, domain |-> domain, ins |-> ins, outs |-> outs, since |-> since,
     data |-> 0, body |-> <<>>, bargs |-> <<>>, bres |-> <<>>]

\* Argument.to_onnx, _Initializer.to_onnx: no instruction
Argument_to_onnx(n, ctx) == <<>>

\* _Constant.to_onnx: one Constant instruction writing the output
Constant_to_onnx(n, ctx) ==
    <<[Proto("Constant", "", <<>>, Names(nodes[n].outs, ctx), nodes[n].cver)
        EXCEPT !.data = nodes[n].data]>>


\* an Introduce lowered to a single Identity, from its last input to its
\* last output
Introduce_to_onnx_LastOnlyM(n, ctx) ==
    <<Proto("Identity", "",
            <<NameOf(nodes[n].ins[Len(nodes[n].ins)], ctx)>>,
            <<NameOf(nodes[n].outs[Len(nodes[n].outs)], ctx)>>, 0)>>

\* _Introduce.to_onnx: one Identity per input, input i to output i
Introduce_to_onnx(n, ctx) ==
    [i \in 1..Len(nodes[n].ins) |->
        Proto("Identity", "",
              <<NameOf(nodes[n].ins[i], ctx)>>,
              <<NameOf(nodes[n].outs[i], ctx)>>, 0)]

\* the instructions of the nodes built in scope p, node by node in build order
RECURSIVE LowerScope(_, _)
LowerNode(n, ctx) ==
    IF nodes[n].op \in {"Argument", "Initializer"} THEN Argument_to_onnx(n, ctx)
    ELSE IF nodes[n].op = "Constant" THEN Constant_to_onnx(n, ctx)
    ELSE IF nodes[n].op = "Introduce" THEN Introduce_to_onnx(n, ctx)
    ELSE LET call == Proto(nodes[n].op, nodes[n].domain,
                           Names(nodes[n].ins, ctx),
                           Names(nodes[n].outs, ctx), nodes[n].version)
         IN  IF nodes[n].sub = 0 THEN <<call>>
             ELSE LET inner == LowerScope(Append(ctx.place[n], n), ctx)
                  IN  <<[call EXCEPT
                          !.body  = Concat([i \in 1..Len(inner) |-> inner[i].protos]),
                          !.bargs = Names(graphs[nodes[n].sub].arguments.args, ctx),
                          !.bres  = Names(graphs[nodes[n].sub].results, ctx)]>>

LowerScope(p, ctx) ==
    LET order == ScopeOrder(p, ctx)
    IN  [i \in 1..Len(order) |->
            [node |-> order[i], protos |-> LowerNode(order[i], ctx)]]

\* every node of the build, each subgraph's nodes right before its carrier
RECURSIVE FlatOrder(_, _)
FlatOrder(p, ctx) ==
    LET order == ScopeOrder(p, ctx)
    IN  Concat([i \in 1..Len(order) |->
            (IF nodes[order[i]].sub = 0 THEN <<>>
             ELSE FlatOrder(Append(p, order[i]), ctx)) \o <<order[i]>>])
-----------------------------------------------------------------------------
(* Build metadata and the BuildResult *)

EmptyBuild ==
    [nodes |-> <<>>, arguments |-> <<>>, results |-> <<>>, initializers |-> <<>>,
     functions |-> <<>>, opset_req |-> {}, names |-> <<>>]

Built(res) == [err |-> "none", res |-> res]
Failed(err) == [err |-> err, res |-> EmptyBuild]

RECURSIVE BuildMain(_)

\* graph._get_build_result() as a node of an enclosing build reads it: the
\* cached value when there is one, else what Builder(graph).build_main() gives
CachedOrBuilt(g) ==
    IF cells[graphs[g].cell] # <<>> THEN Built(cells[graphs[g].cell][1])
    ELSE BuildMain(g)

\* Node.opset_req: the opset of the node's own operator
Node_opset_req(n) == {<<nodes[n].domain, nodes[n].version>>}

\* _InternalNode.opset_req
InternalNode_opset_req(n) == {}

\* _Constant.opset_req
Constant_opset_req(n) == IF nodes[n].cver # 0 THEN {<<"", nodes[n].cver>>} ELSE {}


\* an Introduce that asks for no version of the default domain
Introduce_opset_req_NoneM(n) == {}

\* _Introduce.opset_req
Introduce_opset_req(n) == {<<"", 1>>}

\* Function.opset_req
Function_opset_req(n) ==
    Node_opset_req(n) \cup CachedOrBuilt(nodes[n].fg).res.opset_req

opset_req(n) ==
    IF IsFunction(nodes[n]) THEN Function_opset_req(n)
    ELSE IF nodes[n].op = "Constant" THEN Constant_opset_req(n)
    ELSE IF nodes[n].op = "Introduce" THEN Introduce_opset_req(n)
    ELSE IF nodes[n].op \in {"Argument", "Initializer"} THEN InternalNode_opset_req(n)
    ELSE Node_opset_req(n)

\* Node.update_metadata: the node's own requirement joins the running union
Node_update_metadata(n, acc) ==
    [acc EXCEPT !.opset_req = @ \cup opset_req(n)]


\* an Argument whose default is not recorded as an initializer
Argument_update_metadata_NoDefaultM(n, acc) == Node_update_metadata(n, acc)

\* Argument.update_metadata: initializers[var] = default when there is one
Argument_update_metadata(n, acc) ==
    LET base == Node_update_metadata(n, acc)
    IN  IF nodes[n].data # 0
        THEN [base EXCEPT !.initializers =
                Append(@, [arrow |-> nodes[n].outs[1], data |-> nodes[n].data])]
        ELSE base

\* _Initializer.update_metadata: initializers[arg] = default
Initializer_update_metadata(n, acc) ==
    [Node_update_metadata(n, acc) EXCEPT !.initializers =
        Append(@, [arrow |-> nodes[n].outs[1], data |-> nodes[n].data])]


\* a Function that records itself and not the Functions of its own graph
Function_update_metadata_SelfOnlyM(n, acc) ==
    [Node_update_metadata(n, acc) EXCEPT !.functions = Append(@, n)]

\* Function.update_metadata: functions.append(self), then
\* functions.extend(func_graph build's functions)
Function_update_metadata(n, acc) ==
    [Node_update_metadata(n, acc) EXCEPT !.functions =
        Append(@, n) \o CachedOrBuilt(nodes[n].fg).res.functions]

update_metadata(n, acc) ==
    IF IsFunction(nodes[n]) THEN Function_update_metadata(n, acc)
    ELSE IF nodes[n].op = "Argument" THEN Argument_update_metadata(n, acc)
    ELSE IF nodes[n].op = "Initializer" THEN Initializer_update_metadata(n, acc)
    ELSE Node_update_metadata(n, acc)

\* update_metadata called once per node, in order
RECURSIVE Metadata(_, _)
Metadata(order, acc) ==
    IF order = <<>> THEN acc
    ELSE Metadata(Tail(order), update_metadata(Head(order), acc))

\* the BuildResult of g over the context ctx and the collected metadata
BuildResult(g, ctx, order, meta) ==
    [nodes        |-> LowerScope(<<>>, ctx),
     arguments    |-> IF graphs[g].arguments.some THEN graphs[g].arguments.args
                      ELSE Concat([i \in 1..Len(order) |->
                               IF nodes[order[i]].op = "Argument"
                               THEN nodes[order[i]].outs ELSE <<>>]),
     results      |-> graphs[g].results,
     initializers |-> meta.initializers,
     functions    |-> meta.functions,
     opset_req    |-> meta.opset_req,
     names        |-> [v \in 1..Len(arrows) |->
                         IF arrows[v].node \in ctx.R
                         THEN <<NameOf(v, ctx)>> ELSE <<>>]]

\* a build over the context ctx: fails when a declared argument is not
\* reached from the results, when a value is used outside the scope it is
\* built in, or when the build of a Function's graph fails
BuildIn(g, ctx) ==
    IF graphs[g].arguments.some
       /\ \E i \in 1..Len(graphs[g].arguments.args) :
             arrows[graphs[g].arguments.args[i]].node \notin ctx.R
    THEN Failed("BuildError")
    ELSE IF ~WellScoped(g, ctx.R, ctx.place) THEN Failed("BuildError")
    ELSE IF \E n \in ctx.R : IsFunction(nodes[n])
                             /\ CachedOrBuilt(nodes[n].fg).err # "none"
    THEN Failed("BuildError")
    ELSE Built(BuildResult(g, ctx, ScopeOrder(<<>>, ctx),
                   Metadata(FlatOrder(<<>>, ctx),
                       [opset_req |-> {}, initializers |-> <<>>, functions |-> <<>>])))

\* Builder(graph).build_main()
BuildMain(g) == BuildIn(g, Context(g))

\* the Function graphs a build of g reads, nested ones included
RECURSIVE FunctionGraphs(_)
FunctionGraphs(g) ==
    LET direct == {nodes[n].fg : n \in {n \in Reach(g) : IsFunction(nodes[n])}}
    IN  direct \cup UNION {FunctionGraphs(f) : f \in direct}
-----------------------------------------------------------------------------
(* graph.py: the queries of a Graph, given its build result b *)

\* a Python dict built from (key, value) pairs in order: a repeated key keeps
\* its first position and takes the last value
RECURSIVE DictOf(_)
DictOf(pairs) ==
    IF pairs = <<>> THEN <<>>
    ELSE LET n    == Len(pairs)
             rest == DictOf(SubSeq(pairs, 1, n - 1))
             kv   == pairs[n]
         IN  IF \E i \in 1..Len(rest) : rest[i].key = kv.key
             THEN [i \in 1..Len(rest) |->
                     IF rest[i].key = kv.key THEN kv ELSE rest[i]]
             ELSE Append(rest, kv)

Values(dict) == [i \in 1..Len(dict) |-> dict[i].val]
Keys(dict) == [i \in 1..Len(dict) |-> dict[i].key]

\* {scope.arrow[arrow]: arrow for arrow in build.arguments}
get_arguments(g, b) ==
    DictOf([i \in 1..Len(b.arguments) |->
        [key |-> b.names[b.arguments[i]][1], val |-> b.arguments[i]]])

\* {scope.arrow[arrow]: arrow for arrow in build.results}
get_results(g, b) ==
    DictOf([i \in 1..Len(b.results) |->
        [key |-> b.names[b.results[i]][1], val |-> b.results[i]]])

\* the requirements of the build alone, the extras of with_opset left out
get_opset_req_BuildOnlyM(g, b) == b.opset_req

\* build.opset_req | (self._extra_opset_req or set())
get_opset_req(g, b) ==
    b.opset_req \cup (IF graphs[g].extra.some THEN graphs[g].extra.req ELSE {})

\* schemas.max_opset_policy: per domain, the greatest version requested
max_opset_policy(req) ==
    [d \in {r[1] : r \in req} |-> Max({r[2] : r \in {q \in req : q[1] = d}})]

get_opsets(g, b) == max_opset_policy(get_opset_req(g, b))

\* {scope.arrow[arrow]: init for arrow, init in build.initializers.items()}
get_initializers_by_name(g, b) ==
    DictOf([i \in 1..Len(b.initializers) |->
        [key |-> b.names[b.initializers[i].arrow][1], val |-> b.initializers[i].data]])

\* _adapt.adapt_best_effort: None when the node is not rewritten: another
\* domain than the default one, no target version for the default domain, or
\* no conversion rule; else the instructions rewritten for the target version
NotAdapted == [some |-> FALSE, protos |-> <<>>]

adapt_best_effort(n, protos, opsets) ==
    IF nodes[n].domain # "" \/ "" \notin DOMAIN opsets THEN NotAdapted
    ELSE IF nodes[n].version # opsets[""] /\ ~nodes[n].conv THEN NotAdapted
    ELSE [some |-> TRUE,
          protos |-> [i \in 1..Len(protos) |-> [protos[i] EXCEPT !.since = opsets[""]]]]

\* an adaptation that fails the nodes it cannot rewrite: they are left out
get_adapted_nodes_DropsM(g, b) ==
    LET fits(e) == adapt_best_effort(e.node, e.protos, get_opsets(g, b)).some
        kept == SelectSeq(b.nodes, fits)
    IN  [i \in 1..Len(kept) |->
            [node   |-> kept[i].node,
             protos |-> adapt_best_effort(kept[i].node, kept[i].protos,
                                          get_opsets(g, b)).protos]]

\* get_adapted_nodes: a copy of build.nodes in which every node that could be
\* adapted maps to the adapted instructions
get_adapted_nodes(g, b) ==
    [i \in 1..Len(b.nodes) |->
        LET best_effort == adapt_best_effort(b.nodes[i].node, b.nodes[i].protos,
                                             get_opsets(g, b))
        IN  [node   |-> b.nodes[i].node,
             protos |-> IF best_effort.some THEN best_effort.protos
                        ELSE b.nodes[i].protos]]


\* a get_adapted_nodes that writes the adapted instructions into the mapping
\* of the build result itself (consistent_nodes = nodes, no copy)
build_nodes_after_NoCopyM(g, b) == get_adapted_nodes(g, b)

\* self._get_build_result().nodes once get_adapted_nodes has returned: the
\* adapted instructions went into consistent_nodes, a copy of the mapping, so
\* the mapping of the build result holds what it held
build_nodes_after(g, b) == b.nodes

\* the instructions chained from the last node to the first
Chain_ReversedM(mapping) ==
    Reverse(Concat([i \in 1..Len(mapping) |-> mapping[i].protos]))

\* itertools.chain.from_iterable(mapping.values())
Chain(mapping) == Concat([i \in 1..Len(mapping) |-> mapping[i].protos])

\* Arrow.unwrap_type().to_onnx_value_info(name, concrete): raises for an arrow
\* without a type, and under concrete for a shape with an unknown dimension
ValueInfoError(v, concrete) ==
    IF arrows[v].type = NoType THEN "TypeError"
    ELSE IF concrete /\ \E i \in 1..Len(arrows[v].type.shape) : arrows[v].type.shape[i] = 0
    THEN "ValueError"
    ELSE "none"

ValueInfos(dict) ==
    [i \in 1..Len(dict) |-> [name |-> dict[i].key, type |-> arrows[dict[i].val].type]]

FirstError(errs) ==
    IF \A i \in 1..Len(errs) : errs[i] = "none" THEN "none"
    ELSE errs[Min({i \in 1..Len(errs) : errs[i] # "none"})]

NoGraphProto == <<>>


\* a to_onnx that serialises a graph without results like any other
make_graph_NoResultsCheckM(g, b, concrete, args, res) ==
    IF FirstError([i \in 1..Len(args) |-> ValueInfoError(args[i].val, concrete)]
           \o [i \in 1..Len(res) |-> ValueInfoError(res[i].val, concrete)]) # "none"
    THEN [err |-> FirstError(
                    [i \in 1..Len(args) |-> ValueInfoError(args[i].val, concrete)]
                    \o [i \in 1..Len(res) |-> ValueInfoError(res[i].val, concrete)]),
          ret |-> NoGraphProto]
    ELSE [err |-> "none",
          ret |-> <<[node        |-> Chain(get_adapted_nodes(g, b)),
                     name        |-> IF graphs[g].name # NONE THEN graphs[g].name
                                     ELSE "steelix_graph",
                     input       |-> ValueInfos(args),
                     output      |-> ValueInfos(res),
                     initializer |-> get_initializers_by_name(g, b),
                     doc_string  |-> graphs[g].doc]>>]

\* Graph.to_onnx(concrete), args and res being get_arguments() and
\* get_results()
make_graph(g, b, concrete, args, res) ==
    IF res = <<>> THEN [err |-> "ValueError: no results", ret |-> NoGraphProto]
    ELSE IF FirstError([i \in 1..Len(args) |-> ValueInfoError(args[i].val, concrete)]
                \o [i \in 1..Len(res) |-> ValueInfoError(res[i].val, concrete)]) # "none"
    THEN [err |-> FirstError(
                    [i \in 1..Len(args) |-> ValueInfoError(args[i].val, concrete)]
                    \o [i \in 1..Len(res) |-> ValueInfoError(res[i].val, concrete)]),
          ret |-> NoGraphProto]
    ELSE [err |-> "none",
          ret |-> <<[node        |-> Chain(get_adapted_nodes(g, b)),
                     name        |-> IF graphs[g].name # NONE THEN graphs[g].name
                                     ELSE "steelix_graph",
                     input       |-> ValueInfos(args),
                     output      |-> ValueInfos(res),
                     initializer |-> get_initializers_by_name(g, b),
                     doc_string  |-> graphs[g].doc]>>]

to_onnx(g, b, concrete) ==
    make_graph(g, b, concrete, get_arguments(g, b), get_results(g, b))

\* Function.to_onnx_function: the definition of the Function node n
make_function(n, fb) ==
    [domain       |-> nodes[n].domain,
     name         |-> nodes[n].op,
     input        |-> [i \in 1..Len(nodes[n].ins) |-> EnumName("in", i - 1)],
     output       |-> [i \in 1..Len(nodes[n].outs) |-> EnumName("out", i - 1)],
     node         |-> Chain(fb.nodes),
     opset_import |-> get_opsets(nodes[n].fg, fb)]

to_onnx_function(n) == make_function(n, CachedOrBuilt(nodes[n].fg).res)

\* the loop of to_onnx_model over build.functions: function_protos keyed by
\* (domain, name); two different definitions under one key raise
RECURSIVE function_protos(_, _)
RECURSIVE function_protos_add(_, _, _)
function_protos(funs, dict) ==
    IF funs = <<>> THEN [err |-> "none", protos |-> dict]
    ELSE function_protos_add(Tail(funs), dict, to_onnx_function(Head(funs)))

\* a loop that lets the later definition overwrite the earlier one
function_protos_add_OverwritesM(rest, dict, proto) ==
    function_protos(rest,
        DictOf(Append(dict, [key |-> <<proto.domain, proto.name>>, val |-> proto])))

\* one turn of the loop: proto is the definition of the next function
function_protos_add(rest, dict, proto) ==
    IF \E i \in 1..Len(dict) : dict[i].key = <<proto.domain, proto.name>>
                               /\ dict[i].val # proto
    THEN [err |-> "RuntimeError: two definitions", protos |-> <<>>]
    ELSE function_protos(rest,
             DictOf(Append(dict, [key |-> <<proto.domain, proto.name>>, val |-> proto])))

NoModelProto == <<>>

\* the calls to_onnx_model makes on the external onnx library once the model
\* is assembled: shape inference when asked for, then the checker when
\* check_model is not 0, with full_check when it is at least 2
ExternalCalls(infer_shapes, check_model) ==
    (IF infer_shapes THEN <<"infer_shapes">> ELSE <<>>)
    \o (IF check_model = 0 THEN <<>>
        ELSE IF check_model >= 2 THEN <<"check_model(full_check)">>
        ELSE <<"check_model">>)

\* a to_onnx_model that assembles the model without asking whether there is
\* any opset import
make_model_NoOpsetCheckM(g, b, infer_shapes, check_model, verdict, funs, graph) ==
    IF funs.err # "none" THEN [err |-> funs.err, ret |-> NoModelProto, ext |-> <<>>]
    ELSE IF graph.err # "none"
    THEN [err |-> graph.err, ret |-> NoModelProto, ext |-> <<>>]
    ELSE IF check_model # 0 /\ ~verdict
    THEN [err |-> "ValidationError", ret |-> NoModelProto,
          ext |-> ExternalCalls(infer_shapes, check_model)]
    ELSE [err |-> "none",
          ret |-> <<[graph        |-> graph.ret[1],
                     functions    |-> Values(funs.protos),
                     opset_import |-> get_opsets(g, b),
                     inferred     |-> infer_shapes]>>,
          ext |-> ExternalCalls(infer_shapes, check_model)]

\* a to_onnx_model that serialises the graph before it looks at the
\* function definitions and the opset imports
make_model_GraphFirstM(g, b, infer_shapes, check_model, verdict, funs, graph) ==
    IF graph.err # "none" THEN [err |-> graph.err, ret |-> NoModelProto, ext |-> <<>>]
    ELSE IF funs.err # "none"
    THEN [err |-> funs.err, ret |-> NoModelProto, ext |-> <<>>]
    ELSE IF DOMAIN get_opsets(g, b) = {}
    THEN [err |-> "RuntimeError: no opset imports", ret |-> NoModelProto, ext |-> <<>>]
    ELSE IF check_model # 0 /\ ~verdict
    THEN [err |-> "ValidationError", ret |-> NoModelProto,
          ext |-> ExternalCalls(infer_shapes, check_model)]
    ELSE [err |-> "none",
          ret |-> <<[graph        |-> graph.ret[1],
                     functions    |-> Values(funs.protos),
                     opset_import |-> get_opsets(g, b),
                     inferred     |-> infer_shapes]>>,
          ext |-> ExternalCalls(infer_shapes, check_model)]

\* Graph.to_onnx_model(infer_shapes, check_model) from the collected function
\* definitions funs and the outcome graph of to_onnx(concrete=True); verdict
\* is what the external onnx.checker.check_model says of the finished model;
\* ext lists the external calls made
make_model(g, b, infer_shapes, check_model, verdict, funs, graph) ==
    IF funs.err # "none" THEN [err |-> funs.err, ret |-> NoModelProto, ext |-> <<>>]
    ELSE IF DOMAIN get_opsets(g, b) = {}
    THEN [err |-> "RuntimeError: no opset imports", ret |-> NoModelProto, ext |-> <<>>]
    ELSE IF graph.err # "none"
    THEN [err |-> graph.err, ret |-> NoModelProto, ext |-> <<>>]
    ELSE IF check_model # 0 /\ ~verdict
    THEN [err |-> "ValidationError", ret |-> NoModelProto,
          ext |-> ExternalCalls(infer_shapes, check_model)]
    ELSE [err |-> "none",
          ret |-> <<[graph        |-> graph.ret[1],
                     functions    |-> Values(funs.protos),
                     opset_import |-> get_opsets(g, b),
                     inferred     |-> infer_shapes]>>,
          ext |-> ExternalCalls(infer_shapes, check_model)]

to_onnx_model(g, b, infer_shapes, check_model, verdict) ==
    make_model(g, b, infer_shapes, check_model, verdict,
               function_protos(b.functions, <<>>), to_onnx(g, b, TRUE))
-----------------------------------------------------------------------------
(* State changes *)

NoRuns == [run |-> 0, ok |-> 0]

\* the universe U becomes the state; every new Graph starts without runs
Install(U) ==
    /\ nodes' = U.nodes
    /\ arrows' = U.arrows
    /\ graphs' = U.graphs
    /\ cells' = U.cells
    /\ runs' = [g \in 1..Len(U.graphs) |-> IF g <= Len(runs) THEN runs[g] ELSE NoRuns]

\* a user-level call: what was called, on which Graph (0: none), with which
\* arguments, the exception raised ("none" when it returned), the value
\* returned, for a query whether it found the build result cached, and the
\* calls it made on the external onnx library
Call(op, g, args, err, ret, hit) ==
    [op |-> op, g |-> g, args |-> args, err |-> err, ret |-> ret, hit |-> hit,
     ext |-> <<>>]

\* the Graphs the user program made itself (not a Function's func_graph, not
\* the body of a subgraph attribute)
UserGraphs ==
    {g \in 1..Len(graphs) : \A n \in 1..Len(nodes) : nodes[n].sub # g /\ nodes[n].fg # g}

\* Graph._get_build_result(): returns the cached value, or runs the Builder
\* and caches what it returns; a Builder that raises leaves the cache empty.
\* Yields the outcome and the next cells and runs.
cache_NoCacheM(g, r, f) ==
    [err   |-> r.err,
     res   |-> r.res,
     cells |-> cells,
     runs  |-> [runs EXCEPT ![g].run = @ + 1,
                            ![g].ok = @ + (IF r.err = "none" THEN 1 ELSE 0)]]

\* r is what Builder(g).build_main() gives, f the Function graphs whose own
\* build that run fills in
cache(g, r, f) ==
    IF cells[graphs[g].cell] # <<>>
    THEN [err |-> "none", res |-> cells[graphs[g].cell][1], cells |-> cells, runs |-> runs]
    ELSE IF r.err # "none"
    THEN [err |-> r.err, res |-> EmptyBuild, cells |-> cells,
          runs |-> [runs EXCEPT ![g].run = @ + 1]]
    ELSE [err   |-> "none",
          res   |-> r.res,
          cells |-> [k \in 1..Len(cells) |->
                        IF k = graphs[g].cell THEN <<r.res>>
                        ELSE IF \E h \in f : graphs[h].cell = k
                        THEN <<BuildMain(CHOOSE h \in f : graphs[h].cell = k).res>>
                        ELSE cells[k]],
          runs  |-> [h \in 1..Len(runs) |->
                        IF h = g \/ h \in f
                        THEN [run |-> runs[h].run + 1, ok |-> runs[h].ok + 1]
                        ELSE runs[h]]]

get_build_result(g) ==
    cache(g, BuildMain(g), {h \in FunctionGraphs(g) : cells[graphs[h].cell] = <<>>})


\* whether the query op with outcome out got as far as get_adapted_nodes:
\* get_adapted_nodes itself; to_onnx past its tests of the results and the
\* value infos; to_onnx_model when its to_onnx returned
Adapts(op, out) ==
    \/ op = "get_adapted_nodes"
    \/ op = "to_onnx" /\ out.err = "none"
    \/ op = "to_onnx_model" /\ out.err \in {"none", "ValidationError"}

\* the cache cells after get_adapted_nodes ran on the fetched build result
AfterAdapting(g, got) ==
    [k \in 1..Len(got.cells) |->
        IF k = graphs[g].cell
        THEN <<[got.cells[k][1] EXCEPT !.nodes = build_nodes_after(g, got.res)]>>
        ELSE got.cells[k]]

\* a query of Graph g: the build result is fetched first (got); when that
\* raises, so does the query, else the query computes its answer (out) from
\* the result.  The cache is left as the fetch left it.
Query(op, g, args, got, out) ==
    /\ g \in UserGraphs
    /\ cells[graphs[g].cell] = <<>> => runs[g].run < MaxRuns
    /\ cells' = IF got.err = "none" /\ Adapts(op, out) THEN AfterAdapting(g, got)
                ELSE got.cells
    /\ runs' = got.runs
    /\ last' = IF got.err # "none"
               THEN Call(op, g, args, got.err, <<>>, FALSE)
               ELSE [Call(op, g, args, out.err, out.ret, cells[graphs[g].cell] # <<>>)
                        EXCEPT !.ext = IF op = "to_onnx_model" THEN out.ext ELSE <<>>]
    /\ UNCHANGED <<nodes, arrows, graphs, held, decorated>>

Answer(ret) == [err |-> "none", ret |-> ret]

GetArguments(g) ==
    LET got == get_build_result(g)
    IN  Query("get_arguments", g, <<>>, got, Answer(get_arguments(g, got.res)))

GetResults(g) ==
    LET got == get_build_result(g)
    IN  Query("get_results", g, <<>>, got, Answer(get_results(g, got.res)))

GetOpsets(g) ==
    LET got == get_build_result(g)
    IN  Query("get_opsets", g, <<>>, got, Answer(get_opsets(g, got.res)))

GetAdaptedNodes(g) ==
    LET got == get_build_result(g)
    IN  Query("get_adapted_nodes", g, <<>>, got, Answer(get_adapted_nodes(g, got.res)))

ToOnnx(g, concrete) ==
    LET got == get_build_result(g)
    IN  Query("to_onnx", g, <<concrete>>, got, to_onnx(g, got.res, concrete))

ToOnnxModel(g, infer_shapes, check_model, verdict) ==
    LET got == get_build_result(g)
    IN  Query("to_onnx_model", g, <<infer_shapes, check_model, verdict>>, got,
              to_onnx_model(g, got.res, infer_shapes, check_model, verdict))

\* a call making a Graph: r is what the constructor or with_* gave back
MakeGraph(op, g, args, r) ==
    /\ Cardinality(UserGraphs) < MaxGraphs
    /\ Install(r.u)
    /\ last' = Call(op, g, args, r.err, r.ret, FALSE)
    /\ UNCHANGED <<held, decorated>>

\* what the program hands to results(...): nothing, an object that is no
\* Arrow (0), or an arrow it computed
ResultChoices ==
    {<<>>, <<0>>} \cup {<<v>> : v \in {v \in held : nodes[arrows[v].node].op # "Argument"}}

SeqsUpTo(S, n) == UNION {[1..k -> S] : k \in 0..n}

\* what the program hands to with_arguments(...): outputs of Argument nodes
\* it holds, no arrow twice, or an object that is no Arrow (0)
ArgumentChoices ==
    {args \in SeqsUpTo({v \in held : nodes[arrows[v].node].op = "Argument"},
                       MaxArguments) : IsInjective(args)}
    \cup {<<0>>}

OpsetMenu == {{<<"", 17>>}, {<<"", 11>>, <<"ai.onnx.ml", 3>>}}

Results(rs) == MakeGraph("results", 0, rs, results(Universe, rs))

WithName(g, name) ==
    MakeGraph("with_name", g, <<name>>, with_name(Universe, g, name))

WithDoc(g, doc_string) ==
    MakeGraph("with_doc", g, <<doc_string>>, with_doc(Universe, g, doc_string))

WithArguments(g, args) ==
    MakeGraph("with_arguments", g, args, with_arguments(Universe, g, args))

WithOpset(g, req) ==
    MakeGraph("with_opset", g, <<req>>, with_opset(Universe, g, req))

WithConstructor(g, fun) ==
    MakeGraph("_with_constructor", g, <<fun>>, with_constructor(Universe, g, fun))

\* a call making nodes: r is what the constructor gave back; the program
\* keeps the arrows returned
MakeNodes(op, args, r) ==
    /\ Len(nodes) < MaxNodes
    /\ Install(r.u)
    /\ held' = held \cup Range(r.ret)
    /\ last' = Call(op, 0, args, r.err, r.ret, FALSE)
    /\ UNCHANGED decorated

Arguments(name, info) ==
    MakeNodes("arguments", <<name, info>>, arguments_dict(Universe, name, info))

Initializer(arr) == MakeNodes("initializer", <<arr>>, initializer(Universe, arr))

Constant(value, version) ==
    MakeNodes("constant", <<value, version>>, constant(Universe, value, version))

Intro(args) == MakeNodes("intro", args, intro(Universe, args))

\* op.add(x, y) of the newest opset of the programs here
Add(x, y) == MakeNodes("add", <<x, y>>, StandardOp(Universe, Op("Add", 17, TRUE), <<x, y>>))

UnsafeCast(x, typ) ==
    MakeNodes("unsafe_cast", <<x, typ>>, unsafe_cast(Universe, x, typ))

UnsafeReshape(x, shape) ==
    MakeNodes("unsafe_reshape", <<x, shape>>, unsafe_reshape(Universe, x, shape))

-----------------------------------------------------------------------------
(* Programs: the construction calls a user program makes before it declares
   or queries its Graphs.  Each yields the universe reached and the arrows
   it holds. *)

F32N == [kind |-> "type", type |-> Tensor("float32", <<-1>>), arr |-> 0]
Array1 == [kind |-> "array", type |-> NoType, arr |-> 1]
Untyped == [kind |-> "none", type |-> NoType, arr |-> 0]
Add13 == Op("Add", 13, TRUE)
Add17 == Op("Add", 17, TRUE)
Upsample9 == Op("Upsample", 9, FALSE)

\* a program so far: the universe reached and, in order, the arrows its
\* calls returned (its local variables)
Program(U, holds) == [u |-> U, held |-> holds]

Begin == Program(EmptyUniverse, <<>>)

\* the program p followed by a call with outcome r
Then(p, r) == Program(r.u, p.held \o r.ret)

\* the program p without its local variable i
Drop(p, i) == Program(p.u, [j \in 1..Len(p.held) - 1 |-> p.held[IF j < i THEN j ELSE j + 1]])

ThenArgument(p, name, info) == Then(p, arguments_dict(p.u, name, info))

ThenConstant(p, version) == Then(p, constant(p.u, 1, version))

ThenInitializer(p, arr) == Then(p, initializer(p.u, arr))

\* o(p.held[i], p.held[j])
ThenOp(p, o, i, j) == Then(p, StandardOp(p.u, o, <<p.held[i], p.held[j]>>))

\* xloop([p.held[i]], lambda x: o(x, p.held[j]))
ThenLoop(p, o, i, j) == Then(p, xloop(p.u, <<p.held[i]>>, Fun("op", o, p.held[j])))

\* intro(p.held[i], p.held[j])
ThenIntro(p, i, j) == Then(p, intro(p.u, <<p.held[i], p.held[j]>>))

\* fname(p.held[i]) for the function class fname with constructor fun
ThenFunction(p, fname, fun, i) == Then(p, Function(p.u, fname, fun, <<p.held[i]>>))

\* a, b = arguments(a=float32[N], b=info); c = o(a, b)
ProgramOp(info, o) ==
    ThenOp(ThenArgument(ThenArgument(Begin, "a", F32N), "b", info), o, 1, 2)

\* a = argument; k = constant(1, version); w = initializer(2);
\* c = Add13(a, k); d = Upsample9(c, w); k and w are not kept
ProgramConst(version) ==
    Drop(Drop(
        ThenOp(ThenOp(
            ThenInitializer(ThenConstant(ThenArgument(Begin, "a", F32N), version), 2),
            Add13, 1, 2), Upsample9, 4, 3),
        2), 2)

\* x = argument; y = Add13(x, x); l = xloop([x], lambda i: Add13(i, y));
\* then either l itself or z = intro(y, l)
ProgramLoop(introduced) ==
    IF introduced
    THEN Drop(ThenIntro(ThenLoop(ThenOp(ThenArgument(Begin, "a", F32N), Add13, 1, 1),
                                 Add13, 1, 2), 2, 3), 2)
    ELSE ThenLoop(ThenOp(ThenArgument(Begin, "a", F32N), Add13, 1, 1), Add13, 1, 2)

\* a = argument; p = F(a) with constructor lambda i: Add13(i, i);
\* q = name2(p) with constructor fun2
ProgramFunction(name2, fun2) ==
    ThenFunction(
        ThenFunction(ThenArgument(Begin, "a", F32N), "F", Fun("op", Add13, 0), 1),
        name2, fun2, 2)

\* fname(p.held[i]) for the function class fname with the constructor
\* lambda x: o(x, p.held[j])
ThenFunctionOver(p, fname, o, j, i) ==
    Then(p, Function(p.u, fname, Fun("op", o, p.held[j]), <<p.held[i]>>))

\* a = argument; q = H(a) with constructor lambda i: F(i), F having the
\* constructor lambda i: Add13(i, i)
ProgramNested ==
    ThenFunction(ThenArgument(Begin, "a", F32N), "H", Fun("fn", Fun("op", Add13, 0), "F"), 1)

\* k = constant(1, None); f = F(k); a = argument;
\* h = G(a) with constructor lambda i: Add13(i, f); r = Add13(h, f)
ProgramShared ==
    ThenOp(
        ThenFunctionOver(
            ThenArgument(ThenFunction(ThenConstant(Begin, 0), "F", Fun("op", Add13, 0), 1),
                         "a", F32N),
            "G", Add13, 2, 3),
        Add13, 4, 2)

\* unsafe_cast(p.held[i], typ)
ThenCast(p, i, typ) == Then(p, unsafe_cast(p.u, p.held[i], typ))

\* a = argument; y = unsafe_cast(a, int64[2])
ProgramCast == ThenCast(ThenArgument(Begin, "a", F32N), 1, Tensor("int64", <<2>>))

\* k = constant(1, version), alone
ProgramK(version) == ThenConstant(Begin, version)

\* g = results(rs) on the outcome of the program p
declare(p, rs) == Program(results(p.u, rs).u, p.held)

\* g = results(rs).with_arguments(args)
declare_with_arguments(p, rs, args) ==
    Program(KeepLast(p.u, then_with_arguments(results(p.u, rs), args)).u, p.held)

\* g = results(rs).with_opset(*req)
declare_with_opset(p, rs, req) ==
    Program(KeepLast(p.u, then_with_opset(results(p.u, rs), req)).u, p.held)

\* the last arrow a program made
Out(p) == Len(p.u.arrows)

OpPrograms ==
    {ProgramOp(F32N, Add13), ProgramOp(Array1, Add17), ProgramOp(Untyped, Upsample9)}

Programs ==
    OpPrograms
    \cup {ProgramConst(0), ProgramConst(11),
          ProgramLoop(FALSE), ProgramLoop(TRUE),
          ProgramFunction("F", Fun("op", Add13, 0)),
          ProgramFunction("F", Fun("op", Add17, 0)),
          ProgramFunction("G", Fun("id", 0, 0)),
          ProgramNested, ProgramShared,
          ProgramCast, ProgramK(0), ProgramK(11)}

\* every program with its last arrow declared as the result; the first
\* also with no result at all, and with an argument its result does not
\* depend on; the second also with its argument b alone as the result
DeclaredPrograms ==
    {declare(p, <<Out(p)>>) : p \in Programs}
    \cup {declare(ProgramOp(F32N, Add13), <<>>),
          declare_with_arguments(ProgramOp(F32N, Add13), <<1>>, <<2>>),
          declare(ProgramOp(Array1, Add17), <<2>>)}

Start(p) ==
    /\ nodes = p.u.nodes
    /\ arrows = p.u.arrows
    /\ graphs = p.u.graphs
    /\ cells = p.u.cells
    /\ held = Range(p.held)
    /\ runs = [g \in 1..Len(p.u.graphs) |-> NoRuns]
    /\ last = Call("program", 0, <<>>, "none", <<>>, FALSE)
    /\ decorated = Undecorated

-----------------------------------------------------------------------------
(* Spec: Graph objects declared over a constructed program, the Graphs
   derived from them, and their arguments and results *)

\* the programs Spec starts from: an operator over two arguments, in one of
\* them already declared as a Graph with an extra opset requirement
StartPrograms ==
    OpPrograms \cup {declare_with_opset(ProgramOp(F32N, Add13), <<3>>, {<<"", 15>>})}

Init == \E p \in StartPrograms : Start(p)

Next ==
    \/ \E rs \in ResultChoices : Results(rs)
    \/ \E g \in UserGraphs : WithName(g, "g")
    \/ \E g \in UserGraphs : WithDoc(g, "doc")
    \/ \E g \in UserGraphs : \E args \in ArgumentChoices : WithArguments(g, args)
    \/ \E g \in UserGraphs : \E req \in OpsetMenu : WithOpset(g, req)
    \/ \E g \in UserGraphs : WithConstructor(g, Fun("id", 0, 0))
    \/ \E g \in UserGraphs : GetArguments(g)
    \/ \E g \in UserGraphs : GetResults(g)
    \/ \E g \in UserGraphs : ToOnnx(g, TRUE)

Spec == Init /\ [][Next]_vars

-----------------------------------------------------------------------------
(* SpecOnnx: the queries and the serialisation of a declared Graph *)

InitOnnx == \E p \in DeclaredPrograms : Start(p)

NextOnnx ==
    \/ \E g \in UserGraphs : \E req \in OpsetMenu : WithOpset(g, req)
    \/ \E g \in UserGraphs : GetArguments(g)
    \/ \E g \in UserGraphs : GetResults(g)
    \/ \E g \in UserGraphs : GetOpsets(g)
    \/ \E g \in UserGraphs : GetAdaptedNodes(g)
    \/ \E g \in UserGraphs : \E concrete \in BOOLEAN : ToOnnx(g, concrete)
    \/ \E g \in UserGraphs :
          \E infer_shapes \in BOOLEAN, check_model \in {0, 1, 2}, verdict \in BOOLEAN :
             ToOnnxModel(g, infer_shapes, check_model, verdict)

SpecOnnx == InitOnnx /\ [][NextOnnx]_vars

-----------------------------------------------------------------------------
(* SpecNodes: the construction calls themselves *)

InitNodes == Start(Begin)

NextNodes ==
    \/ \E info \in InfoMenu : Arguments("a", info)
    \/ \E arr \in ArrayMenu : Initializer(arr)
    \/ \E version \in {0, 11} : Constant(1, version)
    \/ \E x \in held : Intro(<<x>>)
    \/ \E x \in held : \E typ \in TypeMenu : UnsafeCast(x, typ)
    \/ \E x \in held : \E shape \in ShapeMenu : UnsafeReshape(x, shape)

SpecNodes == InitNodes /\ [][NextNodes]_vars

-----------------------------------------------------------------------------
(* SpecInfer: type inference of an elementwise operator *)

\* the tensor types the arguments are declared with
InferMenu ==
    {Tensor("float32", <<-1>>), Tensor("float32", <<2, -1>>), Tensor("float32", <<2>>),
     Tensor("float32", <<3>>), Tensor("float64", <<2>>), Tensor("float32", <<1, 3>>)}

InitInfer == Start(Begin)

NextInfer ==
    \/ \E name \in {"a", "b"} : \E t \in InferMenu : Arguments(name, TypeInfo(t))
    \/ \E x, y \in held : Add(x, y)

SpecInfer == InitInfer /\ [][NextInfer]_vars

-----------------------------------------------------------------------------
(* SpecFunction: calls of a function decorated with to_function *)

\* the functions the program decorates: x + x, x itself, and x once per
\* dimension of its type
FunMenu == {Fun("op", Add17, 0), Fun("id", 0, 0), Fun("rank", 0, 0)}

\* the tensor types the arguments are declared with
RankMenu == {Tensor("float32", <<-1>>), Tensor("float32", <<2, -1>>)}

\* f(x) for the decorated f: the program keeps the arrows returned
CallDecorated_with(x, r) ==
    /\ Install(r.u)
    /\ held' = held \cup Range(r.ret)
    /\ last' = Call("alt_fun", 0, <<x>>, r.err, r.ret, FALSE)
    /\ decorated' = [r.d EXCEPT !.calls = @ + 1]

CallDecorated(x) ==
    /\ decorated # Undecorated
    /\ decorated.calls < MaxCalls
    /\ CallDecorated_with(x, alt_fun(Universe, decorated, <<x>>))

\* f = to_function("f")(fun): the program decorates one function
ToFunction(fun) ==
    /\ decorated = Undecorated
    /\ decorated' = to_function("f", fun)
    /\ UNCHANGED <<nodes, arrows, graphs, cells, held, runs, last>>

InitFunction == Start(Begin)

NextFunction ==
    \/ \E name \in {"a", "b"} : \E t \in RankMenu : Arguments(name, TypeInfo(t))
    \/ \E fun \in FunMenu : ToFunction(fun)
    \/ \E x \in held : CallDecorated(x)

SpecFunction == InitFunction /\ [][NextFunction]_vars

-----------------------------------------------------------------------------
(* Properties *)

QueryOps ==
    {"get_arguments", "get_results", "get_opsets", "get_adapted_nodes",
     "to_onnx", "to_onnx_model"}

\* the cached build result of Graph g: <<>> while there is none
CachedBuild(g) == cells[graphs[g].cell]

C2_DerivedGraphBuildsItself ==
    (last.op = "get_arguments" /\ last.g \in UserGraphs) =>
        IF BuildMain(last.g).err # "none"
        THEN last.err = BuildMain(last.g).err
        ELSE last.err = "none"
             /\ last.ret = get_arguments(last.g, BuildMain(last.g).res)

\* C3: when two Function instances of the build's function list share
\* (domain, name) and their definitions differ, to_onnx_model raises
\* RuntimeError and returns no model; when to_onnx_model returns, the model
\* holds exactly one definition per (domain, name) of the list, equal to the
\* definition of every instance under that key.
C3_OneDefinitionPerFunction ==
    (last.op = "to_onnx_model" /\ CachedBuild(last.g) # <<>>) =>
        LET funs == CachedBuild(last.g)[1].functions
            key(n) == <<nodes[n].domain, nodes[n].op>>
        IN  /\ (\E i, j \in 1..Len(funs) :
                    /\ key(funs[i]) = key(funs[j])
                    /\ to_onnx_function(funs[i]) # to_onnx_function(funs[j]))
               => (last.err = "RuntimeError: two definitions" /\ last.ret = NoModelProto)
            /\ last.err = "none" =>
                 \A i \in 1..Len(funs) :
                    /\ Cardinality({k \in 1..Len(last.ret[1].functions) :
                          <<last.ret[1].functions[k].domain,
                            last.ret[1].functions[k].name>> = key(funs[i])}) = 1
                    /\ \E k \in 1..Len(last.ret[1].functions) :
                          last.ret[1].functions[k] = to_onnx_function(funs[i])

\* two instances of one function with equal bodies became one definition
C3_EqualDefinitionsMerged ==
    /\ last.op = "to_onnx_model"
    /\ last.err = "none"
    /\ Len(CachedBuild(last.g)[1].functions) = 2
    /\ Len(last.ret[1].functions) = 1

\* C4, as stated: for a Graph with explicit arguments a1..an, a query raises a
\* Build error when some ai is not a dependency of a result; when every ai is
\* one, the build succeeds, get_arguments returns exactly a1..an in that
\* order and the inputs of the serialised graph are named after a1..an in
\* that order.
C4_ExplicitArgumentsAreTheInputs ==
    (last.op \in {"get_arguments", "to_onnx"} /\ graphs[last.g].arguments.some) =>
        LET args == graphs[last.g].arguments.args
        IN  IF \E i \in 1..Len(args) : arrows[args[i]].node \notin Reach(last.g)
            THEN last.err = "BuildError"
            ELSE /\ last.err # "BuildError"
                 /\ last.op = "get_arguments" =>
                       (last.err = "none" /\ Values(last.ret) = args)
                 /\ (last.op = "to_onnx" /\ last.err = "none") =>
                       [i \in 1..Len(last.ret[1].input) |-> last.ret[1].input[i].name.base]
                         = [i \in 1..Len(args) |-> arrows[args[i]].name]

\* C5: get_opsets returns one version per domain: the domains are exactly
\* those named by a requirement of the build or by an extra requirement of
\* with_opset, and the version of each is the greatest one requested for it;
\* the opset imports of the model to_onnx_model returns are the same map.
C5_OpsetsAreMaxima ==
    /\ (last.op = "get_opsets" /\ CachedBuild(last.g) # <<>>) => last.err = "none"
    /\ (last.op \in {"get_opsets", "to_onnx_model"} /\ last.err = "none") =>
         LET req == CachedBuild(last.g)[1].opset_req
                    \cup (IF graphs[last.g].extra.some THEN graphs[last.g].extra.req
                          ELSE {})
             m   == IF last.op = "get_opsets" THEN last.ret
                    ELSE last.ret[1].opset_import
         IN  /\ DOMAIN m = {r[1] : r \in req}
             /\ \A d \in DOMAIN m :
                   /\ <<d, m[d]>> \in req
                   /\ \A r \in req : r[1] = d => r[2] <= m[d]

\* an extra requirement of with_opset decided the version of the default
\* domain
C5_ExtraRequirementWins ==
    /\ last.op = "get_opsets"
    /\ last.err = "none"
    /\ graphs[last.g].extra.some
    /\ "" \in DOMAIN last.ret
    /\ <<"", last.ret[""]>> \notin CachedBuild(last.g)[1].opset_req

\* whether to_onnx has a value info for every argument and result of the
\* build b (no untyped arrow among them)
Typed(b) ==
    \A i \in 1..Len(b.arguments) \cup 1..Len(b.results) :
        /\ i <= Len(b.arguments) => arrows[b.arguments[i]].type # NoType
        /\ i <= Len(b.results) => arrows[b.results[i]].type # NoType

\* C6: adaptation never fails a query.  get_adapted_nodes of a built Graph
\* returns; what it returns has the nodes of the BuildResult in the same
\* order, each with the adapter's instructions when the adapter rewrote it and
\* with its original instructions otherwise; and to_onnx of a built Graph with
\* results and typed arguments and results returns a graph, whether or not
\* every node could be adapted.
C6_AdaptationIsBestEffort ==
    /\ (last.op = "get_adapted_nodes" /\ CachedBuild(last.g) # <<>>) =>
         LET b == CachedBuild(last.g)[1]
             adapted(i) == adapt_best_effort(b.nodes[i].node, b.nodes[i].protos,
                                             get_opsets(last.g, b))
         IN  /\ last.err = "none"
             /\ Len(last.ret) = Len(b.nodes)
             /\ \A i \in 1..Len(b.nodes) :
                   /\ last.ret[i].node = b.nodes[i].node
                   /\ last.ret[i].protos = IF adapted(i).some THEN adapted(i).protos
                                           ELSE b.nodes[i].protos
    /\ (last.op = "to_onnx" /\ CachedBuild(last.g) # <<>>) =>
         LET b == CachedBuild(last.g)[1]
         IN  (b.results # <<>> /\ Typed(b)) =>
                /\ last.err = "none"
                /\ Len(last.ret[1].node)
                     = Len(Concat([i \in 1..Len(b.nodes) |-> b.nodes[i].protos]))

\* to_onnx returned a graph although a node of the build, written for
\* another version than the one chosen, could not be adapted
C6_UnadaptedNodeSerialised ==
    /\ last.op = "to_onnx"
    /\ last.err = "none"
    /\ \E i \in 1..Len(CachedBuild(last.g)[1].nodes) :
          LET e == CachedBuild(last.g)[1].nodes[i]
          IN  /\ e.protos # <<>>
              /\ nodes[e.node].domain = ""
              /\ nodes[e.node].version # get_opsets(last.g, CachedBuild(last.g)[1])[""]
              /\ ~adapt_best_effort(e.node, e.protos,
                                    get_opsets(last.g, CachedBuild(last.g)[1])).some

\* every instruction of seq reads only names that are available before it:
\* those in avail and those written by an earlier instruction of seq; the
\* same holds inside the body of an instruction, where the names available
\* before the carrier and the arguments of the body are available, and the
\* results of a body are available at its end
RECURSIVE ProducersFirst(_, _)
ProducersFirst(seq, avail) ==
    \A i \in 1..Len(seq) :
        LET before == avail \cup UNION {Range(seq[j].outs) : j \in 1..(i - 1)}
            inside == before \cup Range(seq[i].bargs)
        IN  /\ Range(seq[i].ins) \subseteq before
            /\ ProducersFirst(seq[i].body, inside)
            /\ Range(seq[i].bres) \subseteq
                 inside \cup UNION {Range(seq[i].body[j].outs) : j \in 1..Len(seq[i].body)}

\* C7: in the instruction sequence to_onnx returns, every value an
\* instruction consumes is an input or initializer of the graph or is
\* produced by an earlier instruction; a value the body of a subgraph reads
\* from outside is produced before the instruction carrying the body; and
\* every value handed to intro is built in the scope of the Introduce node or
\* in a scope enclosing it, never in a subgraph below it.
C7_ProducersPrecedeConsumers ==
    (last.op = "to_onnx" /\ last.err = "none") =>
        LET b == CachedBuild(last.g)[1]
        IN  /\ ProducersFirst(last.ret[1].node,
                   {last.ret[1].input[i].name : i \in 1..Len(last.ret[1].input)}
                   \cup {last.ret[1].initializer[i].key :
                            i \in 1..Len(last.ret[1].initializer)})
            /\ \A v \in 1..Len(arrows) :
                  (b.names[v] # <<>> /\ nodes[arrows[v].node].op = "Introduce") =>
                     \A k \in 1..Len(nodes[arrows[v].node].ins) :
                        b.names[nodes[arrows[v].node].ins[k]][1].d <= b.names[v][1].d

\* a serialised graph in which the body of a Loop reads a value from outside,
\* built before the Loop because it was handed to intro
C7_IntroducedValueBuiltOutside ==
    /\ last.op = "to_onnx"
    /\ last.err = "none"
    /\ \E i, j, k \in 1..Len(last.ret[1].node) :
          /\ j < i /\ i < k
          /\ last.ret[1].node[k].op = "Identity"
          /\ last.ret[1].node[k].ins = last.ret[1].node[j].outs
          /\ \E m \in 1..Len(last.ret[1].node[i].body) :
                Range(last.ret[1].node[j].outs)
                  \cap Range(last.ret[1].node[i].body[m].ins) # {}

\* C8: unsafe_cast(x, typ) and unsafe_reshape(x, shape) return a new arrow y,
\* other than x, produced by an Introduce node whose only input is x; y has
\* the supplied type (unsafe_reshape: the element type of x with the supplied
\* shape) and the propagated value of x; no arrow or node that existed before
\* the call is changed by it.  (unsafe_reshape of an arrow without a tensor
\* type raises and changes nothing.)
C8_UnsafeCastForwardsValue ==
    [][(last'.op \in {"unsafe_cast", "unsafe_reshape"}) =>
         LET x == last'.args[1]
         IN  IF last'.op = "unsafe_reshape" /\ arrows[x].type = NoType
             THEN last'.err = "TypeError" /\ arrows' = arrows /\ nodes' = nodes
             ELSE LET y   == last'.ret[1]
                      typ == IF last'.op = "unsafe_cast" THEN last'.args[2]
                             ELSE Tensor(arrows[x].type.dtype, last'.args[2])
                  IN  /\ last'.err = "none"
                      /\ Len(last'.ret) = 1
                      /\ y \notin 1..Len(arrows) /\ y \in 1..Len(arrows') /\ y # x
                      /\ nodes'[arrows'[y].node].op = "Introduce"
                      /\ nodes'[arrows'[y].node].ins = <<x>>
                      /\ arrows'[y].type = typ
                      /\ arrows'[y].value = arrows[x].value
                      /\ \A v \in 1..Len(arrows) : arrows'[v] = arrows[v]
                      /\ \A n \in 1..Len(nodes) : nodes'[n] = nodes[n]
      ]_vars

\* unsafe_cast gave an arrow with a propagated value another type
C8_CastOfValuedArrow ==
    /\ last.op = "unsafe_cast"
    /\ last.err = "none"
    /\ arrows[last.args[1]].value # 0
    /\ arrows[last.ret[1]].type # arrows[last.args[1]].type

\* C9, as stated: a call creating an argument without a Type is rejected, and
\* every Argument node has a Type.
C9_ArgumentsAreTyped ==
    /\ \A n \in 1..Len(nodes) : nodes[n].op = "Argument" => nodes[n].type # NoType
    /\ (last.op = "arguments" /\ last.args[2].kind = "none") => last.err = "TypeError"

\* C10: results(...) or with_arguments(...) handed an object that is no
\* Arrow raises TypeError at once: nothing is returned, no Graph object is
\* made, no cache is touched and no Builder runs; and no Graph object ever
\* holds a result or an explicit argument that is not an Arrow.
C10_NonValueRejected ==
    [][/\ (last'.op \in {"results", "with_arguments"} /\ 0 \in Range(last'.args)) =>
             /\ last'.err = "TypeError"
             /\ last'.ret = <<>>
             /\ graphs' = graphs /\ cells' = cells /\ runs' = runs
       /\ \A g \in 1..Len(graphs') :
             /\ Range(graphs'[g].results) \subseteq 1..Len(arrows')
             /\ Range(graphs'[g].arguments.args) \subseteq 1..Len(arrows')
      ]_vars

\* with_arguments of an existing Graph raised on an object that is no Arrow
C10_WithArgumentsRejected ==
    /\ last.op = "with_arguments"
    /\ last.err = "TypeError"
    /\ last.args = <<0>>
    /\ last.g \in 1..Len(graphs)

\* C11: to_onnx of a Graph whose built result set is empty raises the
\* ValueError for a graph without results and returns no graph; to_onnx of a
\* Graph with at least one result never raises that error.
C11_EmptyResultsRaise ==
    last.op = "to_onnx" =>
       /\ (CachedBuild(last.g) # <<>> /\ CachedBuild(last.g)[1].results = <<>>) =>
             last.err = "ValueError: no results" /\ last.ret = NoGraphProto
       /\ graphs[last.g].results # <<>> => last.err # "ValueError: no results"

\* to_onnx was called on a built Graph without results and raised
C11_ToOnnxWithoutResults ==
    /\ last.op = "to_onnx"
    /\ CachedBuild(last.g) # <<>>
    /\ graphs[last.g].results = <<>>
    /\ last.err = "ValueError: no results"

\* C12: when the opset map of a built Graph, the maximum per domain over the
\* requirements of its build and of with_opset, is empty, to_onnx_model
\* raises the RuntimeError for missing opset imports and returns no model;
\* when the map is not empty, to_onnx_model does not raise that error.
C12_NoOpsetImportsRaise ==
    (last.op = "to_onnx_model" /\ CachedBuild(last.g) # <<>>) =>
        IF DOMAIN get_opsets(last.g, CachedBuild(last.g)[1]) = {}
        THEN last.err = "RuntimeError: no opset imports" /\ last.ret = NoModelProto
        ELSE last.err # "RuntimeError: no opset imports"

\* to_onnx_model raised for a built Graph that has a result and is made of
\* Argument and Initializer nodes only
C12_OnlyInternalNodes ==
    /\ last.op = "to_onnx_model"
    /\ last.err = "RuntimeError: no opset imports"
    /\ CachedBuild(last.g) # <<>>
    /\ graphs[last.g].results # <<>>
    /\ \A n \in Reach(last.g) : nodes[n].op \in {"Argument", "Initializer"}

\* the arrows a build of g has to record an initializer for: the output of
\* every reachable Initializer node and of every reachable Argument with a
\* default
InitializerArrows(g) ==
    {nodes[n].outs[1] : n \in {n \in Reach(g) :
        \/ nodes[n].op = "Initializer"
        \/ nodes[n].op = "Argument" /\ nodes[n].data # 0}}

\* C13: in every BuildResult the initializer map has one entry for the output
\* of each reachable Initializer node and of each reachable Argument with a
\* default, holding the data of that node, and no other entry, so none for
\* an Argument without a default; the initializer tensors of the graph
\* to_onnx returns are these entries, each under the name the build gave to
\* its arrow.
C13_InitializersAreDefaults ==
    /\ \A g \in 1..Len(graphs) :
          CachedBuild(g) # <<>> =>
             LET inits == CachedBuild(g)[1].initializers
             IN  /\ {inits[i].arrow : i \in 1..Len(inits)} = InitializerArrows(g)
                 /\ Len(inits) = Cardinality(InitializerArrows(g))
                 /\ \A i \in 1..Len(inits) :
                       inits[i].data = nodes[arrows[inits[i].arrow].node].data
    /\ (last.op = "to_onnx" /\ last.err = "none") =>
          LET b == CachedBuild(last.g)[1]
              tensors == last.ret[1].initializer
          IN  /\ Range(tensors) =
                   {[key |-> b.names[v][1], val |-> nodes[arrows[v].node].data] :
                       v \in InitializerArrows(last.g)}
              /\ Len(tensors) = Cardinality(InitializerArrows(last.g))

\* to_onnx returned a graph with one argument without a default, which is no
\* initializer, and one argument with a default, which is one
C13_DefaultBecomesInitializer ==
    /\ last.op = "to_onnx"
    /\ last.err = "none"
    /\ Len(last.ret[1].initializer) = 1
    /\ \E n, m \in Reach(last.g) :
          /\ nodes[n].op = "Argument" /\ nodes[n].data # 0
          /\ nodes[m].op = "Argument" /\ nodes[m].data = 0

\* C14: in every BuildResult an Argument and an Initializer node have no
\* instruction, a Constant node has exactly one, a Constant instruction
\* without inputs writing the name of its output, and an Introduce node has
\* exactly one Identity instruction per input, the i-th reading the name of
\* input i and writing the name of output i; every Introduce node has as
\* many outputs as inputs.
C14_InternalNodesLowerFixed ==
    /\ \A n \in 1..Len(nodes) :
          nodes[n].op = "Introduce" => Len(nodes[n].outs) = Len(nodes[n].ins)
    /\ \A g \in 1..Len(graphs) :
          CachedBuild(g) # <<>> =>
             LET b == CachedBuild(g)[1]
             IN  \A k \in 1..Len(b.nodes) :
                    LET n == b.nodes[k].node
                        protos == b.nodes[k].protos
                    IN  /\ nodes[n].op \in {"Argument", "Initializer"} => protos = <<>>
                        /\ nodes[n].op = "Constant" =>
                              /\ Len(protos) = 1
                              /\ protos[1].op = "Constant"
                              /\ protos[1].ins = <<>>
                              /\ protos[1].outs = <<b.names[nodes[n].outs[1]][1]>>
                              /\ protos[1].data = nodes[n].data
                        /\ nodes[n].op = "Introduce" =>
                              /\ Len(protos) = Len(nodes[n].ins)
                              /\ \A i \in 1..Len(protos) :
                                    /\ protos[i].op = "Identity"
                                    /\ protos[i].ins = <<b.names[nodes[n].ins[i]][1]>>
                                    /\ protos[i].outs = <<b.names[nodes[n].outs[i]][1]>>

\* a built Graph with an Introduce node of two inputs, lowered to two
\* instructions, and an Argument node, lowered to none
C14_TwoIdentities ==
    /\ last.op \in QueryOps
    /\ CachedBuild(last.g) # <<>>
    /\ \E k, j \in 1..Len(CachedBuild(last.g)[1].nodes) :
          LET e == CachedBuild(last.g)[1].nodes[k]
              a == CachedBuild(last.g)[1].nodes[j]
          IN  /\ nodes[e.node].op = "Introduce"
              /\ Len(nodes[e.node].ins) = 2
              /\ Len(e.protos) = 2
              /\ nodes[a.node].op = "Argument"
              /\ a.protos = <<>>

\* C15: for every Function node reachable in a build, the requirement set of
\* the build includes every requirement of the build of the Function's own
\* graph, and the function list of the build holds the Function followed at
\* once by every Function on the list of its own graph's build, in that
\* order.
C15_FunctionsPropagate ==
    \A g \in 1..Len(graphs) :
        CachedBuild(g) # <<>> =>
           \A n \in Reach(g) :
              IsFunction(nodes[n]) =>
                 /\ CachedBuild(nodes[n].fg) # <<>>
                 /\ LET b  == CachedBuild(g)[1]
                        fb == CachedBuild(nodes[n].fg)[1]
                    IN  /\ fb.opset_req \subseteq b.opset_req
                        /\ \E i \in 1..Len(b.functions) :
                              /\ b.functions[i] = n
                              /\ i + Len(fb.functions) <= Len(b.functions)
                              /\ SubSeq(b.functions, i + 1, i + Len(fb.functions))
                                   = fb.functions

\* a built Graph with a Function whose constructor made another Function: the
\* inner one is on the list of the outer build, and so is the requirement of
\* the operator the inner one is made of
C15_NestedFunctionListed ==
    /\ last.op \in QueryOps
    /\ CachedBuild(last.g) # <<>>
    /\ \E n \in Reach(last.g) :
          /\ IsFunction(nodes[n])
          /\ CachedBuild(nodes[n].fg) # <<>>
          /\ CachedBuild(nodes[n].fg)[1].functions # <<>>
          /\ CachedBuild(last.g)[1].functions
               = <<n>> \o CachedBuild(nodes[n].fg)[1].functions
          /\ <<"", 13>> \in CachedBuild(last.g)[1].opset_req

\* C16, as stated: the function list of every build holds no Function
\* twice, and the Functions met in the build order of the main scope first
\* appear on it in that order.
C16_FunctionsListedOnce ==
    \A g \in 1..Len(graphs) :
        CachedBuild(g) # <<>> =>
           LET b == CachedBuild(g)[1]
               first(n) == Min({i \in 1..Len(b.functions) : b.functions[i] = n})
           IN  /\ IsInjective(b.functions)
               /\ \A i, j \in 1..Len(b.nodes) :
                     (i < j /\ IsFunction(nodes[b.nodes[i].node])
                            /\ IsFunction(nodes[b.nodes[j].node])) =>
                        first(b.nodes[i].node) < first(b.nodes[j].node)

\* what with_name, with_doc, with_arguments and with_opset may each change
TargetedField(op) ==
    IF op = "with_name" THEN "name"
    ELSE IF op = "with_doc" THEN "doc"
    ELSE IF op = "with_arguments" THEN "arguments"
    ELSE "extra"

\* C17: no call changes the results, name, doc string, explicit arguments or
\* extra opset requirements of a Graph that exists; the Graph returned by
\* with_name, with_doc, with_arguments or with_opset is a new object that
\* has the targeted field set as asked (with_opset: the union of the extra
\* requirements the original had and the new ones) and every other of these
\* fields, and the constructor, as in the original.
C17_WithLeavesOriginal ==
    [][/\ \A g \in 1..Len(graphs) :
             /\ g \in 1..Len(graphs')
             /\ \A f \in {"results", "name", "doc", "arguments", "extra", "constructor"} :
                   graphs'[g][f] = graphs[g][f]
       /\ (/\ last'.op \in {"with_name", "with_doc", "with_arguments", "with_opset"}
           /\ last'.err = "none") =>
             LET g == last'.g
                 h == last'.ret[1]
                 a == last'.args
             IN  /\ h = Len(graphs) + 1
                 /\ Len(graphs') = Len(graphs) + 1
                 /\ \A f \in {"results", "name", "doc", "arguments", "extra",
                              "constructor"} \ {TargetedField(last'.op)} :
                       graphs'[h][f] = graphs[g][f]
                 /\ last'.op = "with_name" => graphs'[h].name = a[1]
                 /\ last'.op = "with_doc" => graphs'[h].doc = a[1]
                 /\ last'.op = "with_arguments" =>
                       graphs'[h].arguments = [some |-> TRUE, args |-> a]
                 /\ last'.op = "with_opset" =>
                       /\ graphs'[h].extra.some
                       /\ graphs'[h].extra.req =
                            a[1] \cup (IF graphs[g].extra.some THEN graphs[g].extra.req
                                       ELSE {})
      ]_vars

\* with_opset was called on a Graph that had an extra requirement, and the
\* Graph it returned has both that one and the new one
C17_OpsetsAccumulate ==
    /\ last.op = "with_opset"
    /\ last.err = "none"
    /\ graphs[last.g].extra.some
    /\ graphs[last.g].extra.req # {}
    /\ ~(graphs[last.g].extra.req \subseteq last.args[1])
    /\ graphs[last.ret[1]].extra.req = graphs[last.g].extra.req \cup last.args[1]

\* dimension k, counted from the last, of shape s; 1 where s has none
DimFromLast(s, k) == IF k <= Len(s) THEN s[Len(s) + 1 - k] ELSE 1

\* C18: add(x, y) over two tensors of the same element type whose shapes
\* broadcast returns an arrow of that element type whose shape has the rank
\* of the longer one and, counted from the last dimension, the dimension of
\* the one shape where the other has 1 or none or the same, and the known
\* size where the other is symbolic: (N,) with (2, N) gives (2, N).  When two
\* known sizes other than 1 differ, as in (2,) with (3,), or the element
\* types differ, the call raises an Inference error and makes no node.
C18_AddBroadcasts ==
    [][last'.op = "add" =>
         LET s == arrows[last'.args[1]].type
             t == arrows[last'.args[2]].type
             n == Max({Len(s.shape), Len(t.shape)})
             clash(k) == LET a == DimFromLast(s.shape, k)
                             b == DimFromLast(t.shape, k)
                         IN  a > 1 /\ b > 1 /\ a # b
         IN  IF s.dtype # t.dtype \/ \E k \in 1..n : clash(k)
             THEN /\ last'.err = "InferenceError"
                  /\ last'.ret = <<>>
                  /\ nodes' = nodes /\ arrows' = arrows
             ELSE /\ last'.err = "none"
                  /\ LET r == arrows'[last'.ret[1]].type
                     IN  /\ r.dtype = s.dtype
                         /\ Len(r.shape) = n
                         /\ \A k \in 1..n :
                               LET a == DimFromLast(s.shape, k)
                                   b == DimFromLast(t.shape, k)
                                   c == DimFromLast(r.shape, k)
                               IN  /\ (a = b \/ b = 1) => c = a
                                   /\ a = 1 => c = b
                                   /\ (a > 1 /\ b < 0) => c = a
                                   /\ (b > 1 /\ a < 0) => c = b
                  /\ (s.shape = <<-1>> /\ t.shape = <<2, -1>>) =>
                        arrows'[last'.ret[1]].type = Tensor("float32", <<2, -1>>)
      ]_vars

\* add of a float32 (N,) and a float32 (2, N) argument returned a float32
\* (2, N) arrow
C18_BroadcastToLongerShape ==
    /\ last.op = "add"
    /\ last.err = "none"
    /\ arrows[last.args[1]].type = Tensor("float32", <<-1>>)
    /\ arrows[last.args[2]].type = Tensor("float32", <<2, -1>>)
    /\ arrows[last.ret[1]].type = Tensor("float32", <<2, -1>>)

\* the requirement r of the build of g is the own floor of a node the build
\* reaches: none for an Argument or an Initializer, the version of a Constant
\* made with one, version 1 of the default domain for an Introduce, the
\* operator's own for any other node, and for a Function also what the build
\* of its graph requires
FloorOfSomeNode(r, g) ==
    \E n \in Reach(g) :
        \/ nodes[n].op = "Constant" /\ nodes[n].cver # 0 /\ r = <<"", nodes[n].cver>>
        \/ nodes[n].op = "Introduce" /\ r = <<"", 1>>
        \/ /\ nodes[n].op \notin {"Argument", "Initializer", "Constant", "Introduce"}
           /\ r = <<nodes[n].domain, nodes[n].version>>
        \/ /\ IsFunction(nodes[n])
           /\ CachedBuild(nodes[n].fg) # <<>>
           /\ r \in CachedBuild(nodes[n].fg)[1].opset_req

\* C19: in every BuildResult each requirement is the floor of some reachable
\* node, where Argument and Initializer nodes have none, a Constant has
\* ('', v) when made with the version v and none otherwise, and an Introduce
\* has ('', 1); these floors are all in the requirement set.  So the opset
\* map of a Graph that reaches an Introduce node has a version of at least 1
\* for the default domain.
C19_InternalFloors ==
    \A g \in 1..Len(graphs) :
        CachedBuild(g) # <<>> =>
           LET b == CachedBuild(g)[1]
           IN  /\ \A r \in b.opset_req : FloorOfSomeNode(r, g)
               /\ \A n \in Reach(g) :
                     /\ (nodes[n].op = "Constant" /\ nodes[n].cver # 0) =>
                           <<"", nodes[n].cver>> \in b.opset_req
                     /\ nodes[n].op = "Introduce" =>
                           /\ <<"", 1>> \in b.opset_req
                           /\ "" \in DOMAIN get_opsets(g, b)
                           /\ get_opsets(g, b)[""] >= 1

\* get_opsets of a Graph made of an Argument and an unsafe_cast of it: the
\* default domain at version 1 and nothing else
C19_CastAloneRequiresOne ==
    /\ last.op = "get_opsets"
    /\ last.err = "none"
    /\ \E n \in Reach(last.g) : nodes[n].op = "Introduce"
    /\ \A n \in Reach(last.g) : nodes[n].op \in {"Introduce", "Argument"}
    /\ CachedBuild(last.g)[1].opset_req = {<<"", 1>>}
    /\ DOMAIN last.ret = {""}
    /\ last.ret[""] = 1

\* two Functions on the list of the build b are defined under one (domain,
\* name) and differently
TwoDefinitions(b) ==
    \E i, j \in 1..Len(b.functions) :
        /\ to_onnx_function(b.functions[i]).domain = to_onnx_function(b.functions[j]).domain
        /\ to_onnx_function(b.functions[i]).name = to_onnx_function(b.functions[j]).name
        /\ to_onnx_function(b.functions[i]) # to_onnx_function(b.functions[j])

C21_AdaptationLeavesBuildResult ==
    [][last'.op \in {"get_adapted_nodes", "to_onnx", "to_onnx_model"} =>
         /\ \A k \in 1..Len(cells) :
               cells[k] # <<>> =>
                  cells'[k] # <<>> /\ cells'[k][1].nodes = cells[k][1].nodes
         /\ (cells[graphs[last'.g].cell] = <<>> /\ cells'[graphs[last'.g].cell] # <<>>) =>
               cells'[graphs[last'.g].cell][1].nodes = BuildMain(last'.g).res.nodes
      ]_vars

\* get_adapted_nodes, served from the cache, returned adapted instructions
\* for a node while the cached mapping holds the node's original ones
C21_AdaptedCopyReturned ==
    /\ last.op = "get_adapted_nodes"
    /\ last.err = "none"
    /\ last.hit
    /\ \E i \in 1..Len(last.ret) :
          /\ last.ret[i].node = CachedBuild(last.g)[1].nodes[i].node
          /\ last.ret[i].protos # CachedBuild(last.g)[1].nodes[i].protos
          /\ Len(last.ret[i].protos) = Len(CachedBuild(last.g)[1].nodes[i].protos)

\* the number of dimensions of the type of arrow v
RankOf(v) == Len(arrows[v].type.shape)

\* the call just made returned a node of the class cls: a Function node with
\* the class's operator identifier, as many inputs as its Inputs and as many
\* outputs as its Outputs, all of them returned
NodeOfClass(cls, ns, as, ret) ==
    /\ ret # <<>>
    /\ LET n == ns[as[ret[1]].node]
       IN  /\ IsFunction(n)
           /\ n.op = cls.name /\ n.domain = cls.domain /\ n.version = cls.version
           /\ Len(n.ins) = cls.num_inputs
           /\ Len(n.outs) = cls.num_outputs
           /\ ret = n.outs

C22_LaterCallOtherCount ==
    /\ last.op = "alt_fun" /\ last.err = "TypeError"
    /\ decorated.calls >= 2
    /\ decorated.fun.kind = "rank"
    /\ RankOf(last.args[1]) # decorated.cls[1].num_outputs
====
